---- MODULE Spec2Model ----
(***************************************************************************)
(* La Arcada de Foca: the response protocol between the client and the     *)
(* hosted model (parseAiOutput, the rejection probe, export / import) and  *)
(* the App component's handlers, as a state machine.                       *)
(*                                                                         *)
(* Text is a sequence of symbols.  A symbol is one character ("{", " ")    *)
(* or one literal that the code searches for as a whole ("%%BEGINCODE%%",  *)
(* "<script", a Markdown fence) or that JSON reads as a whole ("null").    *)
(* Word symbols ("title", "x", ...) stand for runs of letters.  The texts  *)
(* of the model are the real texts that split into these symbols; no       *)
(* concatenation of other symbols spells a searched literal.               *)
(***************************************************************************)
EXTENDS Integers, Sequences, FiniteSets, TLC

\* ------------------------------------------------------------ bounds

\* how_to_play arrays of the generated descriptors hold 0..MaxHowTo entries
MaxHowTo == 1
\* whitespace symbols padded around generated texts: 0..MaxPad
MaxPad == 1

\* ------------------------------------------------------------ text

codeSeparator == "%%BEGINCODE%%"
endSeparator == "%%ENDCODE%%"

\* The Markdown fences: three backquotes followed by json, and three backquotes
\* (a backquote cannot be written in a TLA+ string)
jsonFence == "[3 backquotes]json"
fence == "[3 backquotes]"

\* String.prototype.trim's white space (the model's alphabet holds these two)
IsSpace(c) == c \in {" ", "\n"}

\* rawInput.indexOf(sym): the first position (1-based), 0 for JavaScript's -1
IndexOf(s, sym) ==
  IF \E i \in 1..Len(s) : s[i] = sym
  THEN CHOOSE i \in 1..Len(s) : s[i] = sym /\ \A j \in 1..(i - 1) : s[j] # sym
  ELSE 0

Contains(s, sym) == \E i \in 1..Len(s) : s[i] = sym

\* s.trim()
Trim(s) ==
  IF \A i \in 1..Len(s) : IsSpace(s[i]) THEN <<>>
  ELSE LET a == CHOOSE i \in 1..Len(s) :
                  ~IsSpace(s[i]) /\ \A j \in 1..(i - 1) : IsSpace(s[j])
           b == CHOOSE i \in 1..Len(s) :
                  ~IsSpace(s[i]) /\ \A j \in (i + 1)..Len(s) : IsSpace(s[j])
       IN SubSeq(s, a, b)

\* s with the symbols at positions a..b removed
Remove(s, a, b) == SubSeq(s, 1, a - 1) \o SubSeq(s, b + 1, Len(s))

\* jsonString.replace of the json fence: the first json fence and a newline
\* right after it are removed
StripJsonFence(s) ==
  LET i == IndexOf(s, jsonFence) IN
  IF i = 0 THEN s
  ELSE IF i < Len(s) /\ s[i + 1] = "\n" THEN Remove(s, i, i + 1)
  ELSE Remove(s, i, i)

\* the replace of the closing fence: a fence that ends the text, or is followed
\* only by the text's last newline (the regex's $ has no m flag: end of input)
StripEndFence(s) ==
  LET n == Len(s) IN
  IF n >= 1 /\ s[n] = fence THEN SubSeq(s, 1, n - 1)
  ELSE IF n >= 2 /\ s[n] = "\n" /\ s[n - 1] = fence THEN SubSeq(s, 1, n - 2)
  ELSE s

\* ------------------------------------------------------------ JavaScript values

\* The values JSON.parse yields, and undefined (a missing property).  Each kind
\* has its own record shape.
JNull == [t |-> "null"]
Undefined == [t |-> "undefined"]
JBool(b) == [t |-> "bool", b |-> b]
\* a number, as its digits
JNum(d) == [t |-> "num", n |-> d]
\* a string, as its text
JStr(s) == [t |-> "str", s |-> s]
\* an array, as the sequence of its elements
JArr(a) == [t |-> "arr", a |-> a]
\* an object, as the sequence of its <<key text, value>> pairs, in insertion order
JObj(o) == [t |-> "obj", o |-> o]

Digits == {"0", "5"}

\* !v
Falsy(v) ==
  \/ v.t \in {"null", "undefined"}
  \/ v.t = "bool" /\ ~v.b
  \/ v.t = "num" /\ \A i \in 1..Len(v.n) : v.n[i] = "0"
  \/ v.t = "str" /\ v.s = <<>>

Truthy(v) == ~Falsy(v)

HasKey(v, key) == v.t = "obj" /\ \E i \in 1..Len(v.o) : v.o[i][1] = key

\* v.key for a non-null v: the own property of an object, undefined otherwise
\* (no value JSON.parse yields inherits one of the properties the code reads)
Get(v, key) ==
  IF HasKey(v, key)
  THEN v.o[CHOOSE i \in 1..Len(v.o) : v.o[i][1] = key][2]
  ELSE Undefined

\* Array.isArray(v)
IsArray(v) == v.t = "arr"

\* obj[key] = val as JSON.parse does it: a repeated key keeps its first place
\* and takes the last value
PutKey(o, key, val) ==
  IF \E i \in 1..Len(o) : o[i][1] = key
  THEN [i \in 1..Len(o) |-> IF o[i][1] = key THEN <<key, val>> ELSE o[i]]
  ELSE Append(o, <<key, val>>)

\* ------------------------------------------------------------ JSON.parse

\* JSON's white space
IsJsonWs(c) == c \in {" ", "\n"}

\* the first position from i on that holds no white space (Len(s) + 1: none)
SkipWs(s, i) ==
  IF \A j \in i..Len(s) : IsJsonWs(s[j]) THEN Len(s) + 1
  ELSE CHOOSE j \in i..Len(s) :
         ~IsJsonWs(s[j]) /\ \A k \in i..(j - 1) : IsJsonWs(s[k])

POk(v, pos) == [ok |-> TRUE, val |-> v, pos |-> pos, err |-> <<>>]
PFail(msg) == [ok |-> FALSE, val |-> Undefined, pos |-> 0, err |-> msg]

\* The SyntaxError messages (V8's wording; the position is left out)
UnexpectedEnd == <<"Unexpected end of JSON input">>
UnexpectedToken(c) == <<"Unexpected token ", c, " in JSON">>
BadEscape == <<"Bad escaped character in JSON">>
BadControl == <<"Bad control character in string literal in JSON">>

\* the end of the run of digits that starts at i
DigitsEnd(s, i) ==
  CHOOSE j \in i..Len(s) :
    /\ \A k \in i..j : s[k] \in Digits
    /\ (j = Len(s) \/ s[j + 1] \notin Digits)

RECURSIVE ParseString(_, _, _)
\* the text of a string literal from position i (after the opening quote);
\* the escapes of the model are \" \\ and \n
ParseString(s, i, acc) ==
  IF i > Len(s) THEN PFail(UnexpectedEnd)
  ELSE IF s[i] = "\"" THEN POk(JStr(acc), i + 1)
  ELSE IF s[i] = "\n" THEN PFail(BadControl)
  ELSE IF s[i] = "\\" THEN
    IF i + 1 > Len(s) THEN PFail(UnexpectedEnd)
    ELSE IF s[i + 1] \in {"\"", "\\"} THEN ParseString(s, i + 2, Append(acc, s[i + 1]))
    ELSE IF s[i + 1] = "n" THEN ParseString(s, i + 2, Append(acc, "\n"))
    ELSE PFail(BadEscape)
  ELSE ParseString(s, i + 1, Append(acc, s[i]))

RECURSIVE ParseValue(_, _), ParseElements(_, _, _), ParseMembers(_, _, _)
RECURSIVE ValueAt(_, _), NumberAt(_, _, _), MoreElements(_, _, _)
RECURSIVE MemberValue(_, _, _), MemberValueAt(_, _, _, _), MoreMembers(_, _, _, _)
\* one JSON value from position i, white space before it skipped
ParseValue(s, i) == ValueAt(s, SkipWs(s, i))

\* a number whose digits run from j to e: no leading zero, so after a 0 the
\* number has ended
NumberAt(s, j, e) ==
  IF s[j] = "0" /\ e > j THEN PFail(UnexpectedToken(s[j + 1]))
  ELSE POk(JNum(SubSeq(s, j, e)), e + 1)

\* the value that starts at position j
ValueAt(s, j) ==
  IF j > Len(s) THEN PFail(UnexpectedEnd)
  ELSE IF s[j] = "null" THEN POk(JNull, j + 1)
  ELSE IF s[j] = "true" THEN POk(JBool(TRUE), j + 1)
  ELSE IF s[j] = "false" THEN POk(JBool(FALSE), j + 1)
  ELSE IF s[j] \in Digits THEN NumberAt(s, j, DigitsEnd(s, j))
  ELSE IF s[j] = "\"" THEN ParseString(s, j + 1, <<>>)
  ELSE IF s[j] = "[" THEN ParseElements(s, SkipWs(s, j + 1), <<>>)
  ELSE IF s[j] = "{" THEN ParseMembers(s, SkipWs(s, j + 1), <<>>)
  ELSE PFail(UnexpectedToken(s[j]))

\* the elements of an array from position i, up to its closing bracket
\* (a bracket right away closes the empty array only)
ParseElements(s, i, acc) ==
  IF acc = <<>> /\ i <= Len(s) /\ s[i] = "]" THEN POk(JArr(<<>>), i + 1)
  ELSE MoreElements(s, acc, ParseValue(s, i))

\* after the element r: a comma and more elements, or the closing bracket
MoreElements(s, acc, r) ==
  IF ~r.ok THEN r
  ELSE IF SkipWs(s, r.pos) > Len(s) THEN PFail(UnexpectedEnd)
  ELSE IF s[SkipWs(s, r.pos)] = "]" THEN POk(JArr(Append(acc, r.val)), SkipWs(s, r.pos) + 1)
  ELSE IF s[SkipWs(s, r.pos)] = ","
    THEN ParseElements(s, SkipWs(s, r.pos) + 1, Append(acc, r.val))
  ELSE PFail(UnexpectedToken(s[SkipWs(s, r.pos)]))

\* the members of an object from position j (no white space there), up to its
\* closing brace (a brace right away closes the empty object only)
ParseMembers(s, j, acc) ==
  IF j > Len(s) THEN PFail(UnexpectedEnd)
  ELSE IF acc = <<>> /\ s[j] = "}" THEN POk(JObj(<<>>), j + 1)
  ELSE IF s[j] # "\"" THEN PFail(UnexpectedToken(s[j]))
  ELSE MemberValue(s, acc, ParseString(s, j + 1, <<>>))

\* after the key: the colon
MemberValue(s, acc, key) ==
  IF ~key.ok THEN key
  ELSE MemberValueAt(s, SkipWs(s, key.pos), acc, key)

MemberValueAt(s, c, acc, key) ==
  IF c > Len(s) THEN PFail(UnexpectedEnd)
  ELSE IF s[c] # ":" THEN PFail(UnexpectedToken(s[c]))
  ELSE MoreMembers(s, acc, key, ParseValue(s, c + 1))

\* after the member's value r: a comma and more members, or the closing brace
MoreMembers(s, acc, key, r) ==
  IF ~r.ok THEN r
  ELSE IF SkipWs(s, r.pos) > Len(s) THEN PFail(UnexpectedEnd)
  ELSE IF s[SkipWs(s, r.pos)] = "}"
    THEN POk(JObj(PutKey(acc, key.val.s, r.val)), SkipWs(s, r.pos) + 1)
  ELSE IF s[SkipWs(s, r.pos)] = ","
    THEN ParseMembers(s, SkipWs(s, SkipWs(s, r.pos) + 1), PutKey(acc, key.val.s, r.val))
  ELSE PFail(UnexpectedToken(s[SkipWs(s, r.pos)]))

\* the end of the text after the value r
EndOfJson(s, r) ==
  IF ~r.ok THEN r
  ELSE IF SkipWs(s, r.pos) <= Len(s) THEN PFail(UnexpectedToken(s[SkipWs(s, r.pos)]))
  ELSE r

\* JSON.parse(s): [ok, val] or, for a SyntaxError, [ok = FALSE, err = message]
JSONParse(s) == EndOfJson(s, ParseValue(s, 1))

\* ------------------------------------------------------------ JSON.stringify

Spaces(n) == [i \in 1..n |-> " "]

RECURSIVE Escape(_)
\* the text of a string literal: quote, backslash and newline escaped
Escape(s) ==
  IF s = <<>> THEN <<>>
  ELSE (IF Head(s) \in {"\"", "\\"} THEN <<"\\", Head(s)>>
        ELSE IF Head(s) = "\n" THEN <<"\\", "n">>
        ELSE <<Head(s)>>) \o Escape(Tail(s))

Quote(s) == <<"\"">> \o Escape(s) \o <<"\"">>

RECURSIVE Stringify(_, _, _), StringifyItems(_, _, _, _)
\* JSON.stringify(v, null, gap) at nesting depth ind (gap = 0: no white space)
Stringify(v, gap, ind) ==
  CASE v.t = "null" -> <<"null">>
    [] v.t = "bool" -> IF v.b THEN <<"true">> ELSE <<"false">>
    [] v.t = "num" -> v.n
    [] v.t = "str" -> Quote(v.s)
    [] v.t = "arr" ->
         IF v.a = <<>> THEN <<"[", "]">>
         ELSE <<"[">> \o StringifyItems(v, gap, ind + gap, 1) \o <<"]">>
    [] v.t = "obj" ->
         IF v.o = <<>> THEN <<"{", "}">>
         ELSE <<"{">> \o StringifyItems(v, gap, ind + gap, 1) \o <<"}">>

\* the items of a non-empty array or object from the i-th on, each on its own
\* indented line when gap > 0, and the line break before the closing bracket
StringifyItems(v, gap, ind, i) ==
  LET n == IF v.t = "arr" THEN Len(v.a) ELSE Len(v.o)
      brk(k) == IF gap > 0 THEN <<"\n">> \o Spaces(k) ELSE <<>>
      item == IF v.t = "arr" THEN Stringify(v.a[i], gap, ind)
              ELSE Quote(v.o[i][1]) \o <<":">> \o (IF gap > 0 THEN <<" ">> ELSE <<>>)
                   \o Stringify(v.o[i][2], gap, ind)
  IN brk(ind) \o item \o
     (IF i = n THEN brk(ind - gap) ELSE <<",">> \o StringifyItems(v, gap, ind, i + 1))


\* ------------------------------------------------------------ parseAiOutput

\* A ParseResult the function returns: gameData is a parsed value or null,
\* gameScript and error are a string or null
Returned(gameData, gameScript, error) ==
  [threw |-> FALSE, gameData |-> gameData, gameScript |-> gameScript,
   error |-> error, message |-> <<>>]

\* No ParseResult: a TypeError leaves the function
Threw(message) ==
  [threw |-> TRUE, gameData |-> JNull, gameScript |-> JNull, error |-> JNull,
   message |-> message]

\* a message that does not name the separator
SeparatorNotFound_Unnamed == <<"Parsing Error: separator not found.">>

SeparatorNotFound == <<"Parsing Error: '", codeSeparator, "' separator not found.">>

\* a message that drops what JSON.parse reported
JsonParsingError_Bare(message) == <<"JSON Parsing Error">>

JsonParsingError(message) == <<"JSON Parsing Error: ">> \o message

MissingFields ==
  <<"Parsing Error: The AI response is missing one or more required fields: ",
    "title", ", ", "description", ", ", "how_to_play", " (must be an array).">>

\* reading a property of null
NullProperty(key) == <<"Cannot read properties of null (reading '", key, "')">>

IsScriptOpen(c) == c \in {"<script", "<SCRIPT"}
IsScriptClose(c) == c \in {"</script>", "</SCRIPT>"}
\* the symbols that end in the character >
EndsInGt(c) == c = ">" \/ IsScriptClose(c)

\* s.replace(/<script.*?>/is, ''): from the first "<script" (any case) that a ">"
\* follows, through the first ">" after it; the dot matches line breaks
StripScriptOpen(s) ==
  IF \E i \in 1..Len(s) : IsScriptOpen(s[i]) /\ \E j \in (i + 1)..Len(s) : EndsInGt(s[j])
  THEN LET i == CHOOSE i \in 1..Len(s) :
                  /\ IsScriptOpen(s[i])
                  /\ \E j \in (i + 1)..Len(s) : EndsInGt(s[j])
                  /\ \A k \in 1..(i - 1) :
                       ~(IsScriptOpen(s[k]) /\ \E j \in (k + 1)..Len(s) : EndsInGt(s[j]))
           j == CHOOSE j \in (i + 1)..Len(s) :
                  EndsInGt(s[j]) /\ \A k \in (i + 1)..(j - 1) : ~EndsInGt(s[k])
       IN Remove(s, i, j)
  ELSE s

\* s.replace(/<\/script>/is, ''): the first "</script>" (any case)
StripScriptClose(s) ==
  IF \E i \in 1..Len(s) : IsScriptClose(s[i])
  THEN LET i == CHOOSE i \in 1..Len(s) :
                  IsScriptClose(s[i]) /\ \A k \in 1..(i - 1) : ~IsScriptClose(s[k])
       IN Remove(s, i, i)
  ELSE s

\* the preamble as it is handed to JSON.parse
CleanJsonString(jsonString) == Trim(StripEndFence(StripJsonFence(jsonString)))

\* the required-field check: does the parsed preamble fail it?  (title,
\* description and how_to_play are read in this order; the value is not null)
\* the check without Array.isArray
MissingRequired_AnyHowTo(gameData) ==
  \/ Falsy(Get(gameData, <<"title">>))
  \/ Falsy(Get(gameData, <<"description">>))
  \/ Falsy(Get(gameData, <<"how_to_play">>))

MissingRequired(gameData) ==
  \/ Falsy(Get(gameData, <<"title">>))
  \/ Falsy(Get(gameData, <<"description">>))
  \/ Falsy(Get(gameData, <<"how_to_play">>))
  \/ ~IsArray(Get(gameData, <<"how_to_play">>))

\* no cut at the end separator
CutAtEnd_Whole(scriptString, endSeparatorIndex) == scriptString

\* scriptString cut at the first end separator, if there is one
CutAtEnd(scriptString, endSeparatorIndex) ==
  IF endSeparatorIndex # 0 THEN SubSeq(scriptString, 1, endSeparatorIndex - 1)
  ELSE scriptString

\* the script region: after the separator, cut at the first end separator
ScriptRegion(rawInput, separatorIndex) ==
  CutAtEnd(SubSeq(rawInput, separatorIndex + 1, Len(rawInput)),
           IndexOf(SubSeq(rawInput, separatorIndex + 1, Len(rawInput)), endSeparator))

CleanScript(scriptString) == Trim(StripScriptClose(StripScriptOpen(scriptString)))

\* parseAiOutput from the required-field check on: parsed is what JSON.parse
\* gave for the preamble
CheckedResult(rawInput, separatorIndex, parsed) ==
  IF ~parsed.ok THEN Returned(JNull, JNull, JStr(JsonParsingError(parsed.err)))
  \* gameData.title of null: a TypeError outside the try block
  ELSE IF parsed.val = JNull THEN Threw(NullProperty("title"))
  ELSE IF MissingRequired(parsed.val) THEN Returned(JNull, JNull, JStr(MissingFields))
  ELSE Returned(parsed.val,
                JStr(CleanScript(ScriptRegion(rawInput, separatorIndex))),
                JNull)

\* parseAiOutput from the search of the separator on
SeparatedResult(rawInput, separatorIndex) ==
  IF separatorIndex = 0 THEN Returned(JNull, JNull, JStr(SeparatorNotFound))
  ELSE CheckedResult(rawInput, separatorIndex,
                     JSONParse(CleanJsonString(SubSeq(rawInput, 1, separatorIndex - 1))))

\* parseAiOutput without its first check
parseAiOutput_NoBlankCheck(rawInput) ==
  SeparatedResult(rawInput, IndexOf(rawInput, codeSeparator))

parseAiOutput(rawInput) ==
  IF Trim(rawInput) = <<>> THEN Returned(JNull, JNull, JNull)
  ELSE SeparatedResult(rawInput, IndexOf(rawInput, codeSeparator))

\* ------------------------------------------------------------ input texts

Str(w) == JStr(<<w>>)

\* an object of the fields that are given (Undefined: the key is absent)
RECURSIVE GivenPairs(_)
GivenPairs(pairs) ==
  IF pairs = <<>> THEN <<>>
  ELSE (IF Head(pairs)[2] = Undefined THEN <<>>
        ELSE << <<<<Head(pairs)[1]>>, Head(pairs)[2]>> >>) \o GivenPairs(Tail(pairs))

MkObj(pairs) == JObj(GivenPairs(pairs))

TitleChoices == {Undefined, JStr(<<>>), Str("t"), JNum(<<"5">>), JBool(FALSE)}
DescriptionChoices == {Undefined, JStr(<<>>), Str("d")}
HowToArrays == {JArr([i \in 1..n |-> Str("a")]) : n \in 0..MaxHowTo}
HowToChoices == {Undefined, JNull, Str("s"), JObj(<<>>)} \cup HowToArrays

\* objects shaped like a descriptor, valid and not
DescriptorValues ==
  {MkObj(<< <<"title", t>>, <<"description", d>>, <<"how_to_play", h>> >>) :
     t \in TitleChoices, d \in DescriptionChoices, h \in HowToChoices}

\* values that are no object
PlainValues == {JNull, JBool(TRUE), JNum(<<"5">>), Str("s"), JArr(<<>>), JArr(<<Str("a")>>)}

\* a descriptor that passes the check, with the optional keys of GameData
GoodDescriptor ==
  MkObj(<< <<"title", Str("t")>>, <<"description", Str("d")>>,
           <<"target_lang", Str("es")>>, <<"labels", Str("L")>>,
           <<"how_to_play", JArr(<<Str("a")>>)>> >>)

Pretty(v) == Stringify(v, 2, 0)
Compact(v) == Stringify(v, 0, 0)

Fenced(text) == <<jsonFence, "\n">> \o text \o <<"\n", fence, "\n">>

Prefixes(text) == {SubSeq(text, 1, n) : n \in 0..(Len(text) - 1)}

Pads == {[i \in 1..n |-> c] : n \in 0..MaxPad, c \in {" ", "\n"}}

\* preambles that are JSON texts
JsonPreambles ==
  {Pretty(v) : v \in DescriptorValues \cup PlainValues}
    \cup {Compact(v) : v \in DescriptorValues \cup PlainValues}
    \cup {Fenced(Pretty(v)) : v \in {GoodDescriptor, JNull, MkObj(<< <<"title", Str("t")>> >>)}}
    \cup {a \o Compact(v) \o b : a \in Pads, b \in Pads, v \in {GoodDescriptor, JNull}}

\* preambles that are not: cut texts, text after the value, a fence that is
\* not at the end, a bad escape, a raw line break in a string
BrokenPreambles ==
  Prefixes(Pretty(GoodDescriptor))
    \cup {Compact(GoodDescriptor) \o <<"x">>,
          <<"Here", " ", "is">> \o Compact(GoodDescriptor),
          Compact(GoodDescriptor) \o <<fence, " ", "\n">>,
          <<fence>> \o Compact(GoodDescriptor),
          <<"\"", "\\", "x", "\"">>, <<"\"", "\n", "\"">>,
          <<"{", "title", ":", "5", "}">>, <<"[", "5", ",", "]">>, <<"0", "5">>}

\* a script, and script regions around it
Script0 == <<"x", " ", "y">>
ScriptRegions ==
  {a \o open \o body \o close \o tail :
     a \in Pads,
     open \in {<<>>, <<"<script", ">">>, <<"<SCRIPT", " ", "a", "\n", ">">>, <<"<script">>},
     body \in {<<>>, Script0, <<"x", ">", "y">>, <<"<script", ">", "x", "</script>">>},
     close \in {<<>>, <<"</script>">>, <<"\n", "</SCRIPT>", "\n">>},
     tail \in {<<>>, <<endSeparator>>, <<endSeparator, "z", endSeparator>>,
               <<codeSeparator, "z">>}}

\* texts that hold the separator
MarkedInputs ==
  {p \o <<"\n", codeSeparator, "\n">> \o Script0 \o <<"\n", endSeparator>> :
     p \in JsonPreambles \cup BrokenPreambles}
    \cup {Pretty(v) \o <<codeSeparator>> \o r :
            v \in {GoodDescriptor, JNull}, r \in ScriptRegions}

\* texts that do not: nothing after the preamble, the separator in another
\* case, the end separator alone
UnmarkedInputs ==
  {p \o t : p \in {<<>>, Compact(GoodDescriptor), Compact(JNull), <<"x">>} \cup Pads,
            t \in {<<>>, <<"x">>, <<"%%begincode%%", "x">>, <<endSeparator>>,
                   <<"\n", "BEGINCODE", "\n", "x">>}}

ParseInputs == MarkedInputs \cup UnmarkedInputs


\* ------------------------------------------------------------ the App component

\* handler invocations with an oracle call outstanding: at most MaxInFlight
MaxInFlight == 2

VARIABLES
  gameData,            \* useState<GameData | null>
  gameScript,          \* useState<string | null>
  error,               \* useState<string | null>
  isGenerating,
  activeTab,
  editableParameters,  \* useState<GameParameter[] | null>
  extractedFrom,       \* the script editableParameters was extracted from (history)
  featureSuggestions,  \* useState<string[] | null>
  isAnalyzing,
  isSuggesting,
  isEditing,
  apiKeySelected,
  calls,               \* the handler invocations that await an oracle call
  lastEvent,           \* the step taken last and what it did
  parseInput,          \* the text handed to parseAiOutput in isolation
  parseResult,         \* and what it gave (null: not applied yet)
  heldScript,          \* the script held after it, or after an edit
  exported,            \* the file exported from the held pair (null: none)
  reimported,          \* parseAiOutput of the exported file (null: not applied)
  labels,              \* the gameData.labels handed to generateHtmlTemplate
  translations,        \* the table t its script builds (null: not built yet)
  analysisText,        \* a response text of the parameter extraction call
  analysis,            \* what analyzeGameScript makes of it (null: not yet)
  body,                \* the body of an assistant message the chat renders
  rendered,            \* the segments rendered for it (null: not rendered yet)
  clipboard,           \* the text its copy button wrote (null: not pressed)
  chatInstance,        \* useState<Chat | null>: TRUE when the chat exists
  chatMessages,        \* useState<Message[]>
  isLoading            \* ChatPanel's useState(false), of the mounted panel

appVars == <<gameData, gameScript, error, isGenerating, activeTab,
             editableParameters, extractedFrom, featureSuggestions, isAnalyzing, isSuggesting,
             isEditing, apiKeySelected, calls, lastEvent>>
parseVars == <<parseInput, parseResult, heldScript, exported, reimported>>
previewVars == <<labels, translations>>
coerceVars == <<analysisText, analysis>>
renderVars == <<body, rendered, clipboard>>
chatVars == <<chatInstance, chatMessages, isLoading>>
otherVars == <<previewVars, coerceVars, renderVars, chatVars>>
vars == <<appVars, parseVars, otherVars>>

\* ${v} in a template literal, for the values JSON.parse yields
RECURSIVE ToText(_), JoinText(_)
ToText(v) ==
  CASE v.t = "str" -> v.s
    [] v.t = "num" -> v.n
    [] v.t = "bool" -> IF v.b THEN <<"true">> ELSE <<"false">>
    [] v.t = "null" -> <<"null">>
    [] v.t = "undefined" -> <<"undefined">>
    [] v.t = "obj" -> <<"[object Object]">>
    [] v.t = "arr" -> JoinText(v.a)

\* Array.prototype.join(): null and undefined elements give no text
JoinText(a) ==
  IF a = <<>> THEN <<>>
  ELSE (IF Head(a).t \in {"null", "undefined"} THEN <<>> ELSE ToText(Head(a)))
       \o (IF Len(a) > 1 THEN <<",">> ELSE <<>>) \o JoinText(Tail(a))

\* an oracle call that fails: the Error's message
NotFoundMessage == "Requested entity was not found"
OracleFailures == {<<"404 ", NotFoundMessage, ".">>, <<"fetch failed">>}

KeyInvalid ==
  <<"Your API key appears to be invalid or missing necessary permissions. Please select a valid API key and ensure billing is enabled for your project.">>

\* handleApiKeyError(e, context): the error it sets, and whether the key stays
ApiKeyErrorText(message, context) ==
  IF Contains(message, NotFoundMessage) THEN JStr(KeyInvalid)
  ELSE JStr(<<context, ": ">> \o message)
\* a handler that never gives the key up
ApiKeyStays_Always(message) == TRUE

ApiKeyStays(message) == ~Contains(message, NotFoundMessage)

\* one step's record
Event(kind, origin, raw, outcome, issued) ==
  [kind |-> kind, origin |-> origin, raw |-> raw, outcome |-> outcome, issued |-> issued]

Call(origin, stage, script) == [origin |-> origin, stage |-> stage, script |-> script]

RemoveAt(q, i) == SubSeq(q, 1, i - 1) \o SubSeq(q, i + 1, Len(q))

AppInit ==
  /\ gameData = JNull
  /\ gameScript = JNull
  /\ error = JNull
  /\ isGenerating = FALSE
  /\ activeTab = "generate"
  /\ editableParameters = JNull
  /\ extractedFrom = JNull
  /\ featureSuggestions = JNull
  /\ isAnalyzing = FALSE
  /\ isSuggesting = FALSE
  /\ isEditing = FALSE
  /\ apiKeySelected = FALSE
  /\ calls = <<>>
  /\ lastEvent = Event("init", "", <<>>, "", {})

\* the chat sends in flight lose their panel: a ChatPanel that is mounted
\* is a new one, and the setIsLoading of an unmounted one sets nothing
Orphaned(q) ==
  [i \in 1..Len(q) |->
     IF q[i].stage = "chat" THEN [q[i] EXCEPT !.origin = "unmounted"] ELSE q[i]]

\* the checkApiKey effect and handleSelectKey: the key is taken as selected;
\* the effect that follows creates the chat when there is none (creating it
\* sends no request), and the main screen is rendered again, with a new
\* ChatPanel when the chat tab is the active one
HandleSelectKey ==
  /\ ~apiKeySelected
  /\ apiKeySelected' = TRUE
  /\ error' = JNull
  /\ chatInstance' = TRUE
  /\ isLoading' = (isLoading /\ activeTab # "chat")
  /\ calls' = IF activeTab = "chat" THEN Orphaned(calls) ELSE calls
  /\ lastEvent' = Event("selectKey", "", <<>>, "", {})
  /\ UNCHANGED <<gameData, gameScript, isGenerating, activeTab,
                 editableParameters, extractedFrom, featureSuggestions, isAnalyzing, isSuggesting,
                 isEditing, chatMessages>>
  /\ UNCHANGED <<parseVars, previewVars, coerceVars, renderVars>>

\* the tab buttons; the edit tab's is disabled while no script is held; the
\* chat tab mounts a new ChatPanel
SetActiveTab(tab) ==
  /\ apiKeySelected
  /\ activeTab # tab
  /\ tab = "edit" => Truthy(gameScript)
  /\ activeTab' = tab
  /\ isLoading' = (isLoading /\ tab # "chat")
  /\ calls' = IF tab = "chat" THEN Orphaned(calls) ELSE calls
  /\ lastEvent' = Event("setActiveTab", "", <<>>, "", {})
  /\ UNCHANGED <<gameData, gameScript, error, isGenerating,
                 editableParameters, extractedFrom, featureSuggestions, isAnalyzing, isSuggesting,
                 isEditing, apiKeySelected, chatInstance, chatMessages>>
  /\ UNCHANGED <<parseVars, previewVars, coerceVars, renderVars>>


\* ------------------------------------------------------------ analyzeGameScript

InvalidAnalysis ==
  <<"Could not extract valid JSON from the AI's analysis. The AI returned an invalid format.">>

\* rawText.match(/(\[[\s\S]*\])/): from the first "[" to the last "]" after it
\* (<<>>: no match)
MatchArray(rawText) ==
  LET i == IndexOf(rawText, "[") IN
  IF i = 0 \/ ~\E j \in (i + 1)..Len(rawText) : rawText[j] = "]" THEN <<>>
  ELSE LET j == CHOOSE j \in (i + 1)..Len(rawText) :
                  rawText[j] = "]" /\ \A k \in (j + 1)..Len(rawText) : rawText[k] # "]"
       IN SubSeq(rawText, i, j)

RECURSIVE EscapeQuotes(_)
\* s.replace(/"/g, '\\"')
EscapeQuotes(s) ==
  IF s = <<>> THEN <<>>
  ELSE (IF Head(s) = "\"" THEN <<"\\", "\"">> ELSE <<Head(s)>>) \o EscapeQuotes(Tail(s))

\* the text JSON.parse is given for one record's value: a single-quoted string
\* is wrapped in double quotes again; any other value is turned into text
ValueText(value) ==
  IF value.t = "str" /\ Len(value.s) >= 1 /\ value.s[1] = "'" /\ value.s[Len(value.s)] = "'"
  THEN <<"\"">> \o EscapeQuotes(SubSeq(value.s, 2, Len(value.s) - 1)) \o <<"\"">>
  ELSE ToText(value)

\* no catch: what JSON.parse left
ValueOr_Lost(r, value) == r.val

\* the catch around JSON.parse: the value as it was
ValueOr(r, value) == IF r.ok THEN r.val ELSE value

\* the value of one record after the try / catch around JSON.parse
ParsedValue(p) == ValueOr(JSONParse(ValueText(Get(p, <<"value">>))), Get(p, <<"value">>))

\* typeof v === 'object' && v !== null
IsObjectType(v) == v.t \in {"obj", "arr"}

FinalType(p, parsedValue) ==
  IF IsArray(parsedValue)
  THEN IF Len(parsedValue.a) > 0 /\ IsObjectType(parsedValue.a[1])
       THEN Str("array_object") ELSE Get(p, <<"type">>)
  ELSE IF IsObjectType(parsedValue) THEN Str("object")
  ELSE Get(p, <<"type">>)

\* { ...p, value: parsedValue, type: finalType } for a record p that is an object
Coerced(p, parsedValue) ==
  JObj(PutKey(PutKey(p.o, <<"value">>, parsedValue), <<"type">>, FinalType(p, parsedValue)))

CoerceParam(p) == Coerced(p, ParsedValue(p))

\* What the try block of analyzeGameScript gives for a response text, up to
\* setEditableParameters: [ok, params] or [ok = FALSE, message] for the Error
\* that reaches the catch.  The records are objects or null; p.value of a null
\* record is a TypeError.
MappedParams(m, parsed) ==
  IF m = <<>> \/ ~parsed.ok
  THEN [ok |-> FALSE, params |-> JNull, message |-> InvalidAnalysis]
  ELSE IF \E i \in 1..Len(parsed.val.a) : parsed.val.a[i] = JNull
  THEN [ok |-> FALSE, params |-> JNull, message |-> NullProperty("value")]
  ELSE [ok |-> TRUE,
        params |-> JArr([i \in 1..Len(parsed.val.a) |-> CoerceParam(parsed.val.a[i])]),
        message |-> <<>>]

AnalysisOf(rawText) == MappedParams(MatchArray(rawText), JSONParse(MatchArray(rawText)))

\* ------------------------------------------------------------ getEditSuggestions

\* value.slice(0, 3) of an array or a string; [] stands for the TypeError of
\* any other value, which getEditSuggestions catches
Slice3(sg) ==
  IF sg.t = "arr" THEN JArr(SubSeq(sg.a, 1, IF Len(sg.a) < 3 THEN Len(sg.a) ELSE 3))
  ELSE IF sg.t = "str" THEN JStr(SubSeq(sg.s, 1, IF Len(sg.s) < 3 THEN Len(sg.s) ELSE 3))
  ELSE JArr(<<>>)

\* what setFeatureSuggestions receives when JSON.parse gave parsed: the empty
\* list when the text is no JSON or the key is missing or falsy
SuggestionsFrom(parsed) ==
  IF ~parsed.ok \/ Falsy(parsed.val) \/ Falsy(Get(parsed.val, <<"suggestions">>))
  THEN JArr(<<>>)
  ELSE Slice3(Get(parsed.val, <<"suggestions">>))

SuggestionsOf(rawText) == SuggestionsFrom(JSONParse(rawText))

\* ------------------------------------------------------------ oracle responses

Rejection(fields) == MkObj(<< <<"rejection", JBool(TRUE)>> >> \o fields)

GameText(v, region) == Pretty(v) \o <<"\n", codeSeparator, "\n">> \o region

WrappedScript == <<"<script", ">", "\n">> \o Script0 \o <<"\n", "</script>", "\n", endSeparator>>

\* what the generation call may return as response.text
GenerationTexts ==
  { \* rejections: with a reason, padded without one, with an empty reason
    Compact(Rejection(<< <<"reason", Str("r")>> >>)),
    <<"\n">> \o Pretty(Rejection(<<>>)) \o <<"\n">>,
    Compact(Rejection(<< <<"reason", JStr(<<>>)>> >>)),
    \* the key "rejected", a rejection that is not true, a rejection before a separator
    Compact(MkObj(<< <<"rejected", JBool(TRUE)>>, <<"reason", Str("r")>> >>)),
    Compact(MkObj(<< <<"rejection", Str("true")>>, <<"reason", Str("r")>> >>)),
    Compact(Rejection(<<>>)) \o <<codeSeparator, "x">>,
    \* a game
    GameText(GoodDescriptor, WrappedScript),
    \* protocol errors: no separator, a null preamble, null alone
    <<"x">>,
    GameText(JNull, Script0),
    <<"null">>,
    \* nothing
    <<>> }

\* what the file picked for import may hold (the first: an exported file)
ImportTexts ==
  { Pretty(GoodDescriptor) \o <<"\n", codeSeparator, "\n">> \o Script0 \o <<"\n", endSeparator>>,
    GameText(JNull, Script0),
    <<"x">> }

OneParam(value) ==
  MkObj(<< <<"name", Str("n")>>, <<"description", Str("d")>>, <<"type", Str("number")>>,
           <<"value", value>> >>)

\* what the parameter extraction call may return
AnalysisTexts ==
  { <<"Here", ":", " ">> \o Compact(JArr(<<OneParam(Str("5"))>>)),
    <<"x">> }

\* what the feature suggestion call may return
SuggestionTexts ==
  { Compact(MkObj(<< <<"suggestions", JArr(<<Str("f")>>)>> >>)), <<"x">> }

jsFence == "[3 backquotes]javascript"

\* what the edit call may return
EditTexts ==
  { <<jsFence, "\n", "y", endSeparator, "w", "\n", fence>>, <<" ">> }


\* ------------------------------------------------------------ handleGenerate

\* the probe of handleGenerate: JSON.parse(rawInput.trim()) gives a truthy
\* value whose rejection property is true (a SyntaxError is caught and ignored)
\* a probe that takes any truthy rejection for a rejection
IsRejection_Truthy(r) == r.ok /\ Truthy(r.val) /\ Truthy(Get(r.val, <<"rejection">>))

IsRejection(r) == r.ok /\ Truthy(r.val) /\ Get(r.val, <<"rejection">>) = JBool(TRUE)

RejectionProbe(rawInput) == IsRejection(JSONParse(Trim(rawInput)))

\* potentialRejection.reason || 'No reason provided.'
\* the reason dropped
ReasonOr_Fallback(reason) == <<"No reason provided.">>

ReasonOr(reason) == IF Truthy(reason) THEN ToText(reason) ELSE <<"No reason provided.">>

RejectionReason(rawInput) == ReasonOr(Get(JSONParse(Trim(rawInput)).val, <<"reason">>))

RejectionError(rawInput) == JStr(<<"AI Rejection: ">> \o RejectionReason(rawInput))

RawOutputError(parseError, rawInput) ==
  JStr(parseError.s \o <<"\n\nRaw AI Output:\n">> \o rawInput)

\* after the awaited analyzeGameScript: what the calling handler still does
\* (setActiveTab('edit') of handleGenerate and of the import, the finally blocks)
TabAfter(origin) == IF origin \in {"generate", "import"} THEN "edit" ELSE activeTab
GeneratingAfter(origin) == IF origin = "generate" THEN FALSE ELSE isGenerating
EditingAfter(origin) == IF origin = "edit" THEN FALSE ELSE isEditing

\* the Generate button (disabled while isGenerating), up to the oracle call;
\* fields: "blank" when the game idea or a language field is empty or white space
HandleGenerate(fields) ==
  /\ apiKeySelected /\ activeTab = "generate" /\ ~isGenerating
  /\ IF fields = "blank"
     THEN /\ error' = JStr(<<"Please fill out all fields to generate a game.">>)
          /\ lastEvent' = Event("generate", "generate", <<>>, "incomplete", {})
          /\ UNCHANGED <<gameData, gameScript, isGenerating, calls>>
     ELSE /\ Len(calls) < MaxInFlight
          /\ isGenerating' = TRUE
          /\ error' = JNull
          /\ gameData' = JNull
          /\ gameScript' = JNull
          /\ calls' = Append(calls, Call("generate", "generation", JNull))
          /\ lastEvent' = Event("generate", "generate", <<>>, "called", {"generation"})
  /\ UNCHANGED <<activeTab, editableParameters, extractedFrom, featureSuggestions,
                 isAnalyzing, isSuggesting, isEditing, apiKeySelected>>
  /\ UNCHANGED <<parseVars, otherVars>>

\* a handler that leaves its failed call outstanding, as if issued again
GenerateFailure_Retries(i, message) ==
  /\ i \in 1..Len(calls) /\ calls[i].stage = "generation"
  /\ error' = ApiKeyErrorText(message, "API Error")
  /\ apiKeySelected' = (apiKeySelected /\ ApiKeyStays(message))
  /\ lastEvent' = Event("generateFailure", "generate", message, "failed", {"generation"})
  /\ UNCHANGED <<gameData, gameScript, isGenerating, activeTab, editableParameters, extractedFrom,
                 featureSuggestions, isAnalyzing, isSuggesting, isEditing, calls>>
  /\ UNCHANGED <<parseVars, otherVars>>

\* the generation call fails: the outer catch and finally of handleGenerate
GenerateFailure(i, message) ==
  /\ i \in 1..Len(calls) /\ calls[i].stage = "generation"
  /\ error' = ApiKeyErrorText(message, "API Error")
  /\ apiKeySelected' = (apiKeySelected /\ ApiKeyStays(message))
  /\ isGenerating' = FALSE
  /\ calls' = RemoveAt(calls, i)
  /\ lastEvent' = Event("generateFailure", "generate", message, "failed", {})
  /\ UNCHANGED <<gameData, gameScript, activeTab, editableParameters, extractedFrom,
                 featureSuggestions, isAnalyzing, isSuggesting, isEditing>>
  /\ UNCHANGED <<parseVars, otherVars>>

\* the rejection branch: the error is set and the handler returns (its finally
\* block clears isGenerating)
\* a rejection branch that does not return: the analysis is started
Rejected_Analyzes(i, rawInput) ==
  /\ error' = RejectionError(rawInput)
  /\ isAnalyzing' = TRUE
  /\ editableParameters' = JNull
  /\ extractedFrom' = JNull
  /\ calls' = [calls EXCEPT ![i] = Call("generate", "analysis", JNull)]
  /\ lastEvent' = Event("generateResponse", "generate", rawInput, "rejection", {"analysis"})
  /\ UNCHANGED <<gameData, gameScript, isGenerating, apiKeySelected>>

Rejected(i, rawInput) ==
  /\ error' = RejectionError(rawInput)
  /\ isGenerating' = FALSE
  /\ calls' = RemoveAt(calls, i)
  /\ lastEvent' = Event("generateResponse", "generate", rawInput, "rejection", {})
  /\ UNCHANGED <<gameData, gameScript, editableParameters, extractedFrom, isAnalyzing, apiKeySelected>>

\* the generation call returns rawInput: the probe, parseAiOutput (res is what
\* it gives), and on success analyzeGameScript up to its oracle call
GenerateOutcome(i, rawInput, res) ==
  /\ IF RejectionProbe(rawInput) THEN Rejected(i, rawInput)
     ELSE IF res.threw THEN
       /\ error' = ApiKeyErrorText(res.message, "API Error")
       /\ apiKeySelected' = (apiKeySelected /\ ApiKeyStays(res.message))
       /\ isGenerating' = FALSE
       /\ calls' = RemoveAt(calls, i)
       /\ lastEvent' = Event("generateResponse", "generate", rawInput, "threw", {})
       /\ UNCHANGED <<gameData, gameScript, editableParameters, extractedFrom, isAnalyzing>>
     ELSE IF Truthy(res.error) THEN
       /\ error' = RawOutputError(res.error, rawInput)
       /\ isGenerating' = FALSE
       /\ calls' = RemoveAt(calls, i)
       /\ lastEvent' = Event("generateResponse", "generate", rawInput, "parseError", {})
       /\ UNCHANGED <<gameData, gameScript, editableParameters, extractedFrom, isAnalyzing, apiKeySelected>>
     ELSE
       /\ gameData' = res.gameData
       /\ gameScript' = res.gameScript
       /\ isAnalyzing' = TRUE
       /\ editableParameters' = JNull
       /\ extractedFrom' = JNull
       /\ error' = JNull
       /\ calls' = [calls EXCEPT ![i] = Call("generate", "analysis", res.gameScript)]
       /\ lastEvent' = Event("generateResponse", "generate", rawInput, "parsed", {"analysis"})
       /\ UNCHANGED <<isGenerating, apiKeySelected>>
  /\ UNCHANGED <<activeTab, featureSuggestions, isSuggesting, isEditing>>

GenerateResponse(i, rawInput) ==
  /\ i \in 1..Len(calls) /\ calls[i].stage = "generation"
  /\ GenerateOutcome(i, rawInput, parseAiOutput(rawInput))
  /\ UNCHANGED <<parseVars, otherVars>>

\* ------------------------------------------------------------ the analysis calls

\* a catch that only logs the failure
AnalysisFails_Logged(i, message) ==
  /\ editableParameters' = JArr(<<>>)
  /\ extractedFrom' = calls[i].script
  /\ isAnalyzing' = FALSE
  /\ activeTab' = TabAfter(calls[i].origin)
  /\ isGenerating' = GeneratingAfter(calls[i].origin)
  /\ isEditing' = EditingAfter(calls[i].origin)
  /\ calls' = RemoveAt(calls, i)
  /\ UNCHANGED <<gameData, gameScript, featureSuggestions, isSuggesting, error, apiKeySelected>>

\* the catch and finally of analyzeGameScript, and the caller's continuation
AnalysisFails(i, message) ==
  /\ error' = ApiKeyErrorText(message, "Error analyzing game script")
  /\ apiKeySelected' = (apiKeySelected /\ ApiKeyStays(message))
  /\ editableParameters' = JArr(<<>>)
  /\ extractedFrom' = calls[i].script
  /\ isAnalyzing' = FALSE
  /\ activeTab' = TabAfter(calls[i].origin)
  /\ isGenerating' = GeneratingAfter(calls[i].origin)
  /\ isEditing' = EditingAfter(calls[i].origin)
  /\ calls' = RemoveAt(calls, i)
  /\ UNCHANGED <<gameData, gameScript, featureSuggestions, isSuggesting>>

\* the parameter extraction call fails
AnalyzeFailure(i, message) ==
  /\ i \in 1..Len(calls) /\ calls[i].stage = "analysis"
  /\ AnalysisFails(i, message)
  /\ lastEvent' = Event("analyzeFailure", calls[i].origin, message, "failed", {})
  /\ UNCHANGED <<parseVars, otherVars>>

\* the parameter extraction call returns rawText: the coercion (a is what the
\* try block gives), and getEditSuggestions up to its oracle call (it returns
\* at once for no script)
Analyzed(i, a) ==
  /\ IF ~a.ok THEN
       /\ AnalysisFails(i, a.message)
       /\ lastEvent' = Event("analyzeResponse", calls[i].origin, <<>>, "invalid", {})
     ELSE IF Falsy(calls[i].script) THEN
       /\ editableParameters' = a.params
       /\ extractedFrom' = calls[i].script
       /\ isAnalyzing' = FALSE
       /\ activeTab' = TabAfter(calls[i].origin)
       /\ isGenerating' = GeneratingAfter(calls[i].origin)
       /\ isEditing' = EditingAfter(calls[i].origin)
       /\ calls' = RemoveAt(calls, i)
       /\ lastEvent' = Event("analyzeResponse", calls[i].origin, <<>>, "done", {})
       /\ UNCHANGED <<gameData, gameScript, error, featureSuggestions,
                      isSuggesting, apiKeySelected>>
     ELSE
       /\ editableParameters' = a.params
       /\ extractedFrom' = calls[i].script
       /\ isSuggesting' = TRUE
       /\ featureSuggestions' = JNull
       /\ error' = JNull
       /\ calls' = [calls EXCEPT ![i].stage = "suggestion"]
       /\ lastEvent' = Event("analyzeResponse", calls[i].origin, <<>>, "extracted", {"suggestion"})
       /\ UNCHANGED <<gameData, gameScript, isGenerating, activeTab,
                      isAnalyzing, isEditing, apiKeySelected>>

AnalyzeResponse(i, rawText) ==
  /\ i \in 1..Len(calls) /\ calls[i].stage = "analysis"
  /\ Analyzed(i, AnalysisOf(rawText))
  /\ UNCHANGED <<parseVars, otherVars>>

\* the end of getEditSuggestions, of analyzeGameScript and of the handler
SuggestionEnds(i, suggestions) ==
  /\ featureSuggestions' = suggestions
  /\ isSuggesting' = FALSE
  /\ isAnalyzing' = FALSE
  /\ activeTab' = TabAfter(calls[i].origin)
  /\ isGenerating' = GeneratingAfter(calls[i].origin)
  /\ isEditing' = EditingAfter(calls[i].origin)
  /\ calls' = RemoveAt(calls, i)
  /\ UNCHANGED <<gameData, gameScript, error, editableParameters, extractedFrom,
                 apiKeySelected>>

\* the feature suggestion call fails: logged, the empty list
SuggestFailure(i, message) ==
  /\ i \in 1..Len(calls) /\ calls[i].stage = "suggestion"
  /\ SuggestionEnds(i, JArr(<<>>))
  /\ lastEvent' = Event("suggestFailure", calls[i].origin, message, "failed", {})
  /\ UNCHANGED <<parseVars, otherVars>>

\* the feature suggestion call returns rawText
SuggestResponse(i, rawText) ==
  /\ i \in 1..Len(calls) /\ calls[i].stage = "suggestion"
  /\ SuggestionEnds(i, SuggestionsOf(rawText))
  /\ lastEvent' = Event("suggestResponse", calls[i].origin, <<>>, "done", {})
  /\ UNCHANGED <<parseVars, otherVars>>


\* ------------------------------------------------------------ handleEditGame

\* response.text.replace of the javascript fence (and a newline after it)
StripJsFence(s) ==
  LET i == IndexOf(s, jsFence) IN
  IF i = 0 THEN s
  ELSE IF i < Len(s) /\ s[i + 1] = "\n" THEN Remove(s, i, i + 1)
  ELSE Remove(s, i, i)

NewScript(text) == Trim(StripEndFence(StripJsFence(text)))

\* the Make Changes button of the edit panel (shown while a script is held,
\* disabled while isEditing or isAnalyzing), up to the oracle call
HandleEditGame(isFixing, numbersChanged, featuresSelected, generalRequest) ==
  /\ apiKeySelected /\ activeTab = "edit" /\ Truthy(gameScript)
  /\ ~isEditing /\ ~isAnalyzing
  /\ LET changesRequested ==
           isFixing \/ numbersChanged \/ featuresSelected \/ generalRequest # "blank"
     IN IF ~changesRequested
        THEN /\ error' = JStr(<<"No changes were requested.">>)
             /\ lastEvent' = Event("edit", "edit", <<>>, "nothing", {})
             /\ UNCHANGED <<isEditing, calls>>
        ELSE /\ Len(calls) < MaxInFlight
             /\ isEditing' = TRUE
             /\ error' = JNull
             /\ calls' = Append(calls, Call("edit", "edit", gameScript))
             /\ lastEvent' = Event("edit", "edit", <<>>, "called", {"edit"})
  /\ UNCHANGED <<gameData, gameScript, isGenerating, activeTab,
                 editableParameters, extractedFrom, featureSuggestions, isAnalyzing, isSuggesting,
                 apiKeySelected>>
  /\ UNCHANGED <<parseVars, otherVars>>

\* a handler without the finally: the flag stays set
EditFailure_StillEditing(i, message) ==
  /\ i \in 1..Len(calls) /\ calls[i].stage = "edit"
  /\ error' = ApiKeyErrorText(message, "Error editing game")
  /\ apiKeySelected' = (apiKeySelected /\ ApiKeyStays(message))
  /\ calls' = RemoveAt(calls, i)
  /\ lastEvent' = Event("editFailure", "edit", message, "failed", {})
  /\ UNCHANGED <<gameData, gameScript, isGenerating, activeTab, isEditing,
                 editableParameters, extractedFrom, featureSuggestions, isAnalyzing, isSuggesting>>
  /\ UNCHANGED <<parseVars, otherVars>>

\* the edit call fails
EditFailure(i, message) ==
  /\ i \in 1..Len(calls) /\ calls[i].stage = "edit"
  /\ error' = ApiKeyErrorText(message, "Error editing game")
  /\ apiKeySelected' = (apiKeySelected /\ ApiKeyStays(message))
  /\ isEditing' = FALSE
  /\ calls' = RemoveAt(calls, i)
  /\ lastEvent' = Event("editFailure", "edit", message, "failed", {})
  /\ UNCHANGED <<gameData, gameScript, isGenerating, activeTab,
                 editableParameters, extractedFrom, featureSuggestions, isAnalyzing, isSuggesting>>
  /\ UNCHANGED <<parseVars, otherVars>>

\* the edit call returns text: the new script, and analyzeGameScript up to
\* its oracle call
EditResponse(i, text) ==
  /\ i \in 1..Len(calls) /\ calls[i].stage = "edit"
  /\ gameScript' = JStr(NewScript(text))
  /\ isAnalyzing' = TRUE
  /\ editableParameters' = JNull
  /\ extractedFrom' = JNull
  /\ error' = JNull
  /\ calls' = [calls EXCEPT ![i] = Call("edit", "analysis", JStr(NewScript(text)))]
  /\ lastEvent' = Event("editResponse", "edit", <<>>, "edited", {"analysis"})
  /\ UNCHANGED <<gameData, isGenerating, activeTab, featureSuggestions,
                 isSuggesting, isEditing, apiKeySelected>>
  /\ UNCHANGED <<parseVars, otherVars>>

\* ------------------------------------------------------------ export and import

\* the file content handleExport writes
ExportContent(data, script) ==
  Stringify(data, 2, 0) \o <<"\n", codeSeparator, "\n">> \o script.s
    \o <<"\n", endSeparator>>

\* handleExport takes the held pair: both truthy (the button is disabled
\* otherwise), and the title is a string (toLowerCase of anything else throws)
ExportAccepts(data, script) ==
  Truthy(data) /\ Truthy(script) /\ Get(data, <<"title">>).t = "str"

\* the Export button: the file is downloaded, the state of the App is not touched
HandleExport ==
  /\ apiKeySelected
  /\ ExportAccepts(gameData, gameScript)
  /\ lastEvent' = Event("export", "", <<>>, "exported", {})
  /\ UNCHANGED <<gameData, gameScript, error, isGenerating, activeTab,
                 editableParameters, extractedFrom, featureSuggestions, isAnalyzing, isSuggesting,
                 isEditing, apiKeySelected, calls>>
  /\ UNCHANGED <<parseVars, otherVars>>

\* reader.onload of handleFileSelected for a file that holds text: the state
\* is cleared, the text parsed, and on success analyzeGameScript runs up to its
\* oracle call (res is what parseAiOutput gives).  A TypeError of
\* parseAiOutput ends the callback where it is.
Imported(text, res) ==
  /\ IF res.threw THEN
       /\ error' = JNull
       /\ gameData' = JNull
       /\ gameScript' = JNull
       /\ lastEvent' = Event("import", "import", text, "threw", {})
       /\ UNCHANGED <<editableParameters, extractedFrom, isAnalyzing, calls>>
     ELSE IF Truthy(res.error) THEN
       /\ error' = JStr(<<"Import Error: ">> \o res.error.s)
       /\ gameData' = JNull
       /\ gameScript' = JNull
       /\ lastEvent' = Event("import", "import", text, "parseError", {})
       /\ UNCHANGED <<editableParameters, extractedFrom, isAnalyzing, calls>>
     ELSE
       /\ Len(calls) < MaxInFlight
       /\ error' = JNull
       /\ gameData' = res.gameData
       /\ gameScript' = res.gameScript
       /\ isAnalyzing' = TRUE
       /\ editableParameters' = JNull
       /\ extractedFrom' = JNull
       /\ calls' = Append(calls, Call("import", "analysis", res.gameScript))
       /\ lastEvent' = Event("import", "import", text, "parsed", {"analysis"})
  /\ UNCHANGED <<isGenerating, activeTab, featureSuggestions, isSuggesting,
                 isEditing, apiKeySelected>>

FileLoaded(text) ==
  /\ apiKeySelected
  /\ Imported(text, parseAiOutput(text))
  /\ UNCHANGED <<parseVars, otherVars>>

\* reader.onerror
FileReadFailed ==
  /\ apiKeySelected
  /\ error' = JStr(<<"Import Error: Failed to read the file.">>)
  /\ lastEvent' = Event("import", "import", <<>>, "unreadable", {})
  /\ UNCHANGED <<gameData, gameScript, isGenerating, activeTab,
                 editableParameters, extractedFrom, featureSuggestions, isAnalyzing, isSuggesting,
                 isEditing, apiKeySelected, calls>>
  /\ UNCHANGED <<parseVars, otherVars>>

\* ------------------------------------------------------------ specifications

\* the variables of the functions taken in isolation, while they idle
PreviewIdle == labels = JNull /\ translations = JNull
ParseIdle ==
  /\ parseInput = <<>>
  /\ parseResult = JNull
  /\ heldScript = JNull
  /\ exported = JNull
  /\ reimported = JNull
CoerceIdle == analysisText = <<>> /\ analysis = JNull
RenderIdle == body = <<>> /\ rendered = JNull /\ clipboard = JNull
ChatIdle == chatInstance = FALSE /\ chatMessages = <<>> /\ isLoading = FALSE
OtherIdle == PreviewIdle /\ CoerceIdle /\ RenderIdle /\ ChatIdle

Init == AppInit /\ ParseIdle /\ OtherIdle

Next ==
  \/ HandleSelectKey
  \/ \E tab \in {"generate", "edit", "chat"} : SetActiveTab(tab)
  \/ \E fields \in {"blank", "filled"} : HandleGenerate(fields)
  \/ \E i \in 1..MaxInFlight, m \in OracleFailures : GenerateFailure(i, m)
  \/ \E i \in 1..MaxInFlight, t \in GenerationTexts : GenerateResponse(i, t)
  \/ \E i \in 1..MaxInFlight, m \in OracleFailures : AnalyzeFailure(i, m)
  \/ \E i \in 1..MaxInFlight, t \in AnalysisTexts : AnalyzeResponse(i, t)
  \/ \E i \in 1..MaxInFlight, m \in OracleFailures : SuggestFailure(i, m)
  \/ \E i \in 1..MaxInFlight, t \in SuggestionTexts : SuggestResponse(i, t)
  \/ \E f \in BOOLEAN, n \in BOOLEAN, s \in BOOLEAN, g \in {"blank", "filled"} :
       HandleEditGame(f, n, s, g)
  \/ \E i \in 1..MaxInFlight, m \in OracleFailures : EditFailure(i, m)
  \/ \E i \in 1..MaxInFlight, t \in EditTexts : EditResponse(i, t)
  \/ HandleExport
  \/ \E t \in ImportTexts : FileLoaded(t)
  \/ FileReadFailed

Spec == Init /\ [][Next]_vars

\* The protocol in isolation: one text is parsed; the pair it gives is held,
\* its script possibly replaced by an edit; the held pair is exported and the
\* exported file parsed again.
ParseInit ==
  /\ AppInit
  /\ parseInput \in ParseInputs
  /\ parseResult = JNull
  /\ heldScript = JNull
  /\ exported = JNull
  /\ reimported = JNull
  /\ OtherIdle

\* parseAiOutput(parseInput), as handleGenerate and the import call it
ParseStep ==
  /\ parseResult = JNull
  /\ parseResult' = parseAiOutput(parseInput)
  /\ heldScript' = parseResult'.gameScript
  /\ UNCHANGED <<otherVars, appVars, parseInput, exported, reimported>>

\* setGameScript(newScript) of handleEditGame
EditStep(text) ==
  /\ parseResult # JNull /\ exported = JNull
  /\ Truthy(heldScript)
  /\ heldScript' = JStr(NewScript(text))
  /\ UNCHANGED <<otherVars, appVars, parseInput, parseResult, exported, reimported>>

\* handleExport of the held pair
ExportStep ==
  /\ parseResult # JNull /\ exported = JNull
  /\ ExportAccepts(parseResult.gameData, heldScript)
  /\ exported' = JStr(ExportContent(parseResult.gameData, heldScript))
  /\ UNCHANGED <<otherVars, appVars, parseInput, parseResult, heldScript, reimported>>

\* parseAiOutput of the exported file, as the import calls it
ReimportStep ==
  /\ exported # JNull /\ reimported = JNull
  /\ reimported' = parseAiOutput(exported.s)
  /\ UNCHANGED <<otherVars, appVars, parseInput, parseResult, heldScript, exported>>

ParseNext ==
  \/ ParseStep
  \/ \E t \in EditTexts : EditStep(t)
  \/ ExportStep
  \/ ReimportStep

ParseSpec == ParseInit /\ [][ParseNext]_vars

\* ------------------------------------------------------------ generateHtmlTemplate: the labels

\* the labels strings hold up to MaxEntries comma-separated entries
MaxEntries == 8

RECURSIVE Split(_, _)
\* s.split(sep): the pieces of s between the separators (one piece at least)
Split(s, sep) ==
  IF ~Contains(s, sep) THEN <<s>>
  ELSE <<SubSeq(s, 1, IndexOf(s, sep) - 1)>>
         \o Split(SubSeq(s, IndexOf(s, sep) + 1, Len(s)), sep)

\* the roles the labels string lists, in its order
keys == <<"language", "play", "howTo", "settings", "date", "user", "madeWith">>

\* an element of an array, undefined past its end
ElementOr(a, i) == IF i <= Len(a) THEN JStr(a[i]) ELSE Undefined

\* the built-in table, its accents dropped (the title is set after it, as for
\* a decoded table)
DefaultTable ==
  [comf |-> MkObj(<< <<"language", Str("Language")>>, <<"settings", Str("Settings")>>,
                     <<"title", Str("General Title")>>, <<"play", Str("Play")>>,
                     <<"howTo", Str("How to Play")>>, <<"date", Str("October 28, 2025")>>,
                     <<"user", Str("by %user%")>>, <<"madeWith", Str("Made with AINARA")>> >>),
   target |-> MkObj(<< <<"language", Str("Idioma")>>, <<"settings", Str("Configuracion")>>,
                       <<"title", Str("Titulo General")>>, <<"play", Str("Jugar")>>,
                       <<"howTo", Str("Como Jugar")>>, <<"date", Str("28 octubre 2025")>>,
                       <<"user", Str("de %user%")>>, <<"madeWith", Str("Hecho con AINARA")>> >>)]

\* labels.split(',').map(p => p.trim().split('/'))
PairsOf(text) ==
  [i \in 1..Len(Split(text, ",")) |-> Split(Trim(Split(text, ",")[i]), "/")]

\* JSON.stringify of the object whose key keys[i] holds pairs[i][side]: a key
\* whose value is undefined is left out; the script reads the text back
SideObject(pairs, side) ==
  JSONParse(Stringify(MkObj([i \in 1..Len(keys) |-> <<keys[i], ElementOr(pairs[i], side)>>]),
                      0, 0)).val

\* the table for the pairs of a labels string
TableOf(pairs) ==
  IF Len(pairs) >= Len(keys)
  THEN [comf |-> SideObject(pairs, 1), target |-> SideObject(pairs, 2)]
  ELSE DefaultTable

\* the table t of the template for gameData.labels: the default when labels
\* is falsy, and when split is no function of it (the TypeError is caught)
TranslationsObject(l) ==
  IF Falsy(l) \/ l.t # "str" THEN DefaultTable ELSE TableOf(PairsOf(l.s))

\* the entries a labels string may hold
EntryChoices ==
  { <<"a", "/", "b">>, <<" ", "a", "/", "b", " ">>, <<"a", "/", "b", "/", "c">>,
    <<"a">>, <<"/", "b">>, <<"a", "/">>, <<>>, <<"\"", "/", "\\">> }

RECURSIVE Joined(_)
\* the entries joined by commas
Joined(entries) ==
  IF Len(entries) = 0 THEN <<>>
  ELSE IF Len(entries) = 1 THEN entries[1]
  ELSE entries[1] \o <<",">> \o Joined(Tail(entries))

\* labels strings: n entries a/b, one of them replaced
LabelTexts ==
  {Joined([i \in 1..n |-> IF i = k THEN e ELSE <<"a", "/", "b">>]) :
     n \in 1..MaxEntries, k \in 1..MaxEntries, e \in EntryChoices}

\* the labels a descriptor that passed the check may hold
LabelInputs ==
  {JStr(text) : text \in LabelTexts} \cup {Undefined, JNull, JNum(<<"5">>), JArr(<<>>)}

PreviewInit ==
  /\ AppInit /\ ParseIdle /\ CoerceIdle /\ RenderIdle /\ ChatIdle
  /\ labels \in LabelInputs
  /\ translations = JNull

\* generateHtmlTemplate, up to the translations object
GenerateHtmlTemplate ==
  /\ translations = JNull
  /\ translations' = TranslationsObject(labels)
  /\ UNCHANGED <<appVars, parseVars, coerceVars, renderVars, chatVars, labels>>

PreviewNext == GenerateHtmlTemplate

PreviewSpec == PreviewInit /\ [][PreviewNext]_vars

\* ------------------------------------------------------------ analyzeGameScript: the coercion

\* the extraction call returns up to MaxParams records
MaxParams == 2

\* the types a record may name (undefined: the key is absent)
TypeChoices ==
  {Str("number"), Str("string"), Str("boolean"), Str("array_string"),
   Str("array_object"), Str("object"), Undefined}

\* the value texts a record may hold: JSON texts, bare text, single-quoted
\* text (plain, with a double quote, with a backslash, with a line break)
ValueTexts ==
  { <<"5">>, <<"true">>, <<"null">>, <<"x">>, <<"\"", "s", "\"">>,
    <<"[", "]">>, <<"[", "\"", "a", "\"", "]">>, <<"[", "{", "}", "]">>, <<"{", "}">>,
    <<"'", "x", "'">>, <<"'", "'">>, <<"'", "a", "\"", "b", "'">>,
    <<"'", "\\", "x", "'">>, <<"'", "\n", "'">>, <<"'", "x">> }

\* the values a record may hold: texts, and values that are no text
ValueChoices ==
  {JStr(text) : text \in ValueTexts}
    \cup {Undefined, JNull, JNum(<<"5">>), JBool(FALSE), JArr(<<JNum(<<"5">>)>>), JObj(<<>>)}

ParamRecord(type, value) ==
  MkObj(<< <<"name", Str("n")>>, <<"description", Str("d")>>, <<"type", type>>,
           <<"value", value>> >>)

\* n records, one of them chosen freely
RecordLists ==
  {[i \in 1..n |-> IF i = k THEN ParamRecord(ty, v) ELSE ParamRecord(Str("number"), Str("5"))] :
     n \in 1..MaxParams, k \in 1..MaxParams, ty \in TypeChoices, v \in ValueChoices}

\* response texts: the records as JSON, bare or after some words; texts that
\* hold no array of records
CoerceTexts ==
  {Compact(JArr(rs)) : rs \in RecordLists}
    \cup {<<"Here", ":", " ">> \o Compact(JArr(<<ParamRecord(Str("string"), v)>>)) :
            v \in ValueChoices}
    \cup {<<"x">>, <<"[", "]">>, <<"[", "null", "]">>, <<"[", "5", ",", "]">>}

CoerceInit ==
  /\ AppInit /\ ParseIdle /\ PreviewIdle /\ RenderIdle /\ ChatIdle
  /\ analysisText \in CoerceTexts
  /\ analysis = JNull

\* the try block of analyzeGameScript on the response text
AnalyzeStep ==
  /\ analysis = JNull
  /\ analysis' = AnalysisOf(analysisText)
  /\ UNCHANGED <<appVars, parseVars, previewVars, renderVars, chatVars, analysisText>>

CoerceNext == AnalyzeStep

CoerceSpec == CoerceInit /\ [][CoerceNext]_vars

\* ------------------------------------------------------------ ChatPanel: an assistant body

\* a body holds up to MaxIdeas idea markers
MaxIdeas == 2

\* '&&IDEA&&', in two symbols: "&&ID" and "EA&&" are texts of their own when
\* they do not stand side by side
ideaMarker == <<"&&ID", "EA&&">>

\* where the first idea marker of s starts (0: there is none)
FirstMarker(s) ==
  IF \E i \in 1..(Len(s) - 1) : SubSeq(s, i, i + 1) = ideaMarker
  THEN CHOOSE i \in 1..(Len(s) - 1) :
         /\ SubSeq(s, i, i + 1) = ideaMarker
         /\ \A k \in 1..(i - 1) : SubSeq(s, k, k + 1) # ideaMarker
  ELSE 0

RECURSIVE SplitIdea(_)
\* msg.body.split(ideaMarker)
SplitIdea(s) ==
  IF FirstMarker(s) = 0 THEN <<s>>
  ELSE <<SubSeq(s, 1, FirstMarker(s) - 1)>> \o SplitIdea(SubSeq(s, FirstMarker(s) + 2, Len(s)))

RECURSIVE Concat(_)
Concat(parts) == IF parts = <<>> THEN <<>> ELSE Head(parts) \o Concat(Tail(parts))

\* msg.body.replace(/&&IDEA&&/g, ''): the markers found from the left are
\* taken out, once
CopyText(s) == Concat(SplitIdea(s))

RECURSIVE DropSpace(_)
\* the match of \s* at the start of t taken off
DropSpace(t) == IF t # <<>> /\ IsSpace(Head(t)) THEN DropSpace(Tail(t)) ELSE t

RECURSIVE DropDigits(_)
DropDigits(t) == IF t # <<>> /\ Head(t) \in Digits THEN DropDigits(Tail(t)) ELSE t

\* t.replace(/^\s*([*\-]\s*|\d+\.\s*)/, '') for a trimmed t
StripListMarker(t) ==
  IF t # <<>> /\ Head(t) \in {"*", "-"} THEN DropSpace(Tail(t))
  ELSE IF t # <<>> /\ Head(t) \in Digits /\ DropDigits(t) # <<>> /\ Head(DropDigits(t)) = "."
  THEN DropSpace(Tail(DropDigits(t)))
  ELSE t

\* ideaText of a part
IdeaText(part) == StripListMarker(Trim(part))

\* the five replacements toHtml starts with, symbol by symbol
EscapeSymbol(c) ==
  CASE c = "&&ID" -> "&amp;&amp;ID"
    [] c = "EA&&" -> "EA&amp;&amp;"
    [] c = "&" -> "&amp;"
    [] c = "<" -> "&lt;"
    [] c = ">" -> "&gt;"
    [] c = "\"" -> "&quot;"
    [] c = "'" -> "&#039;"
    [] OTHER -> c

EscapeHtml(s) == [i \in 1..Len(s) |-> EscapeSymbol(s[i])]

\* where the first blank line (two line breaks) of s starts (0: there is none)
FirstBreak(s) ==
  IF \E i \in 1..(Len(s) - 1) : s[i] = "\n" /\ s[i + 1] = "\n"
  THEN CHOOSE i \in 1..(Len(s) - 1) :
         /\ s[i] = "\n" /\ s[i + 1] = "\n"
         /\ \A k \in 1..(i - 1) : ~(s[k] = "\n" /\ s[k + 1] = "\n")
  ELSE 0

RECURSIVE Blocks(_)
\* html.split('\n\n')
Blocks(s) ==
  IF FirstBreak(s) = 0 THEN <<s>>
  ELSE <<SubSeq(s, 1, FirstBreak(s) - 1)>> \o Blocks(SubSeq(s, FirstBreak(s) + 2, Len(s)))

\* block.match(/^\s*[\-\*]\s/) and block.match(/^\s*\d+\.\s/)
IsBulleted(line) ==
  Len(DropSpace(line)) >= 2 /\ DropSpace(line)[1] \in {"-", "*"} /\ IsSpace(DropSpace(line)[2])
IsNumbered(line) ==
  /\ DropSpace(line) # <<>> /\ Head(DropSpace(line)) \in Digits
  /\ Len(DropDigits(DropSpace(line))) >= 2
  /\ DropDigits(DropSpace(line))[1] = "." /\ IsSpace(DropDigits(DropSpace(line))[2])

\* item.replace of the same patterns: the marker and one white space after it
Unbulleted(line) == IF IsBulleted(line) THEN SubSeq(DropSpace(line), 3, Len(DropSpace(line))) ELSE line
Unnumbered(line) ==
  IF IsNumbered(line)
  THEN SubSeq(DropDigits(DropSpace(line)), 3, Len(DropDigits(DropSpace(line))))
  ELSE line

RECURSIVE Items(_, _)
\* the list items of the lines, each with its marker taken off
Items(lines, numbered) ==
  IF lines = <<>> THEN <<>>
  ELSE <<"<li class=\"ml-4\">">> \o (IF numbered THEN Unnumbered(Head(lines)) ELSE Unbulleted(Head(lines)))
         \o <<"</li>">> \o Items(Tail(lines), numbered)

\* block.replace(/\n/g, '<br/>')
LineBreaks(block) == [i \in 1..Len(block) |-> IF block[i] = "\n" THEN "<br/>" ELSE block[i]]

\* one block of toHtml: a list, a paragraph, or nothing for a blank block (the
\* bodies of the model hold at most one * to a part and no bracket, so the
\* rules for emphasis and links find nothing)
BlockHtml(block) ==
  IF Trim(block) = <<>> THEN <<>>
  ELSE IF IsBulleted(block) THEN <<"<ul class=\"list-disc list-inside space-y-1\">">> \o Items(Split(block, "\n"), FALSE) \o <<"</ul>">>
  ELSE IF IsNumbered(block) THEN <<"<ol class=\"list-decimal list-inside space-y-1\">">> \o Items(Split(block, "\n"), TRUE) \o <<"</ol>">>
  ELSE <<"<p>">> \o LineBreaks(block) \o <<"</p>">>

RECURSIVE BlocksHtml(_)
BlocksHtml(blocks) ==
  IF blocks = <<>> THEN <<>> ELSE BlockHtml(Head(blocks)) \o BlocksHtml(Tail(blocks))

\* toHtml(markdown) of MarkdownRenderer
ToHtml(markdown) == BlocksHtml(Blocks(EscapeHtml(markdown)))

\* what is rendered for the i-th part: nothing for a blank last part, else
\* the part as HTML and, when it is not the last and ideaText is not empty,
\* the button that hands ideaText to onIdeaImport
PartRendered(parts, i) ==
  IF Trim(parts[i]) = <<>> /\ i = Len(parts) THEN <<>>
  ELSE << [html |-> ToHtml(parts[i]),
           offer |-> IF i # Len(parts) /\ IdeaText(parts[i]) # <<>>
                     THEN JStr(IdeaText(parts[i])) ELSE JNull] >>

RECURSIVE PartsRendered(_, _)
PartsRendered(parts, i) ==
  IF i > Len(parts) THEN <<>> ELSE PartRendered(parts, i) \o PartsRendered(parts, i + 1)

\* the body of a model message as rendered (msg.body && ...)
RenderBody(text) == IF text = <<>> THEN <<>> ELSE PartsRendered(SplitIdea(text), 1)

\* the spans an assistant body is made of
SpanChoices ==
  { <<>>, <<" ">>, <<"x">>, <<"\n", "x", " ">>, <<"*", " ", "x">>, <<"-", "x">>,
    <<"5", ".", " ", "x", "\n", "5", ".", " ", "y">>, <<"5", ".", "5", "x">>,
    <<"x", "\n", "\n", "&", "y">>, <<"&&ID">>, <<"EA&&">> }

\* bodies: up to MaxIdeas + 1 spans with an idea marker between two of them
RECURSIVE BodiesOf(_)
BodiesOf(n) ==
  IF n = 0 THEN SpanChoices
  ELSE {b \o ideaMarker \o sp : b \in BodiesOf(n - 1), sp \in SpanChoices}

Bodies == UNION {BodiesOf(n) : n \in 0..MaxIdeas}

RenderInit ==
  /\ AppInit /\ ParseIdle /\ PreviewIdle /\ CoerceIdle /\ ChatIdle
  /\ body \in Bodies
  /\ rendered = JNull
  /\ clipboard = JNull

\* the message is rendered
Render ==
  /\ rendered = JNull
  /\ rendered' = JArr(RenderBody(body))
  /\ UNCHANGED <<appVars, parseVars, previewVars, coerceVars, chatVars, body, clipboard>>

\* the copy button of the rendered body
HandleCopy ==
  /\ rendered # JNull /\ body # <<>> /\ clipboard = JNull
  /\ clipboard' = JStr(CopyText(body))
  /\ UNCHANGED <<appVars, parseVars, previewVars, coerceVars, chatVars, body, rendered>>

RenderNext == Render \/ HandleCopy

RenderSpec == RenderInit /\ [][RenderNext]_vars

\* ------------------------------------------------------------ ChatPanel: handleSendMessage

\* the chat history holds up to MaxMessages messages
MaxMessages == 4

\* rawText.match(/\{[\s\S]*\}/): from the first "{" to the last "}" after it
\* (<<>>: no match)
MatchObject(rawText) ==
  IF IndexOf(rawText, "{") = 0
     \/ ~\E j \in (IndexOf(rawText, "{") + 1)..Len(rawText) : rawText[j] = "}"
  THEN <<>>
  ELSE SubSeq(rawText, IndexOf(rawText, "{"),
              CHOOSE j \in (IndexOf(rawText, "{") + 1)..Len(rawText) :
                rawText[j] = "}" /\ \A k \in (j + 1)..Len(rawText) : rawText[k] # "}")

\* newUserMessage
UserMessage(input) == MkObj(<< <<"role", Str("user")>>, <<"content", JStr(input)>> >>)

RECURSIVE Spread(_, _)
\* { ...o, ...pairs }: the pairs set on o one after the other
Spread(o, pairs) ==
  IF pairs = <<>> THEN o
  ELSE Spread(PutKey(o, Head(pairs)[1], Head(pairs)[2]), Tail(pairs))

\* the message of the inner catch: the response is shown as it came
ResponseError(rawText) ==
  MkObj(<< <<"header", Str("Response Error")>>,
           <<"body", JStr(<<"The AI returned a response that was not in the expected JSON format.",
                            "\n", "\n", "Raw response:", "\n">> \o rawText)>>,
           <<"footer", Str("Please try rephrasing your message.")>>,
           <<"language", JStr(<<"e", "n">>)>> >>)

\* parsedResponse, given what JSON.parse made of the match
ParsedResponse(rawText, match, parsed) ==
  IF match = <<>> \/ ~parsed.ok THEN ResponseError(rawText) ELSE parsed.val

\* newModelMessage = { role: 'model', ...parsedResponse }
ModelMessageOf(parsedResponse) ==
  JObj(Spread(<< <<<<"role">>, Str("model")>> >>, parsedResponse.o))

ModelMessage(rawText) ==
  ModelMessageOf(ParsedResponse(rawText, MatchObject(rawText), JSONParse(MatchObject(rawText))))

\* errorMessage of the outer catch
ApiErrorMessage(message) ==
  MkObj(<< <<"role", Str("model")>>,
           <<"header", Str("API Error")>>,
           <<"body", Str("Sorry, I couldn't process your request right now.")>>,
           <<"footer", JStr(message)>>,
           <<"language", JStr(<<"e", "n">>)>> >>)

\* what the user types
ChatInputs == {<<>>, <<" ">>, <<"hi">>}

\* a reply object of the four fields
Reply(header, msgBody, footer, language) ==
  Stringify(MkObj(<< <<"header", header>>, <<"body", msgBody>>,
                     <<"footer", footer>>, <<"language", language>> >>), 0, 0)

\* response texts of the chat: a reply as asked for, bare, with white space
\* or with words around it; one that offers an idea; replies with a field
\* missing, null, or a language that is no two-letter code; an empty object;
\* an object that names a role; texts that hold no JSON object
ChatTexts ==
  { Reply(Str("h"), Str("b"), Str("f"), JStr(<<"e", "n">>)),
    <<" ">> \o Reply(Str("h"), Str("b"), Str("f"), JStr(<<"e", "s">>)) \o <<"\n">>,
    <<"Sure", " ">> \o Reply(JStr(<<>>), Str("b"), JStr(<<>>), JStr(<<"e", "n">>)),
    Reply(Str("h"), JStr(<<"*", " ", "x">> \o ideaMarker), Str("f"), JStr(<<"e", "n">>)),
    Reply(Str("h"), Undefined, Str("f"), JStr(<<"e", "n">>)),
    Reply(Str("h"), Str("b"), JNull, JStr(<<"e", "n">>)),
    Reply(Str("h"), Str("b"), Str("f"), JStr(<<"e", "n", "g">>)),
    Reply(Str("h"), Str("b"), Str("f"), JNull),
    <<"{", "}">>,
    Stringify(MkObj(<< <<"role", Str("user")>>, <<"content", Str("c")>> >>), 0, 0),
    <<"x">>,
    <<"{", "x", "}">>,
    <<>> }

\* the panel is on the screen
PanelMounted == apiKeySelected /\ activeTab = "chat"

\* handleSendMessage up to its await: the user's message is appended and the
\* send is in flight
HandleSendMessage(input) ==
  /\ PanelMounted
  /\ Trim(input) # <<>> /\ ~isLoading /\ chatInstance
  /\ Len(calls) < MaxInFlight /\ Len(chatMessages) + Len(calls) + 2 <= MaxMessages
  /\ chatMessages' = Append(chatMessages, UserMessage(input))
  /\ isLoading' = TRUE
  /\ calls' = Append(calls, Call("panel", "chat", JNull))
  /\ lastEvent' = Event("send", "chat", input, "called", {"chat"})
  /\ UNCHANGED <<gameData, gameScript, error, isGenerating, activeTab,
                 editableParameters, extractedFrom, featureSuggestions, isAnalyzing, isSuggesting,
                 isEditing, apiKeySelected, chatInstance>>
  /\ UNCHANGED <<parseVars, previewVars, coerceVars, renderVars>>

\* the send returns: the reply, or the message of the inner catch, is appended
SendResponse(i, text) ==
  /\ i \in 1..Len(calls) /\ calls[i].stage = "chat"
  /\ chatMessages' = Append(chatMessages, ModelMessage(Trim(text)))
  /\ isLoading' = (isLoading /\ calls[i].origin # "panel")
  /\ calls' = RemoveAt(calls, i)
  /\ lastEvent' = Event("sendResponse", "chat", text, "appended", {})
  /\ UNCHANGED <<gameData, gameScript, error, isGenerating, activeTab,
                 editableParameters, extractedFrom, featureSuggestions, isAnalyzing, isSuggesting,
                 isEditing, apiKeySelected, chatInstance>>
  /\ UNCHANGED <<parseVars, previewVars, coerceVars, renderVars>>

\* the send fails: the outer catch and finally of handleSendMessage
SendFailure(i, message) ==
  /\ i \in 1..Len(calls) /\ calls[i].stage = "chat"
  /\ error' = ApiKeyErrorText(message, "Error sending message to AINARA")
  /\ apiKeySelected' = (apiKeySelected /\ ApiKeyStays(message))
  /\ chatMessages' = Append(chatMessages, ApiErrorMessage(message))
  /\ isLoading' = (isLoading /\ calls[i].origin # "panel")
  /\ calls' = RemoveAt(calls, i)
  /\ lastEvent' = Event("sendFailure", "chat", message, "failed", {})
  /\ UNCHANGED <<gameData, gameScript, isGenerating, activeTab,
                 editableParameters, extractedFrom, featureSuggestions, isAnalyzing, isSuggesting,
                 isEditing, chatInstance>>
  /\ UNCHANGED <<parseVars, previewVars, coerceVars, renderVars>>

\* the Clear button, shown while the history is not empty
ClearChat ==
  /\ PanelMounted /\ Len(chatMessages) > 0
  /\ chatMessages' = <<>>
  /\ lastEvent' = Event("clear", "chat", <<>>, "", {})
  /\ UNCHANGED <<gameData, gameScript, error, isGenerating, activeTab,
                 editableParameters, extractedFrom, featureSuggestions, isAnalyzing, isSuggesting,
                 isEditing, apiKeySelected, calls, chatInstance, isLoading>>
  /\ UNCHANGED <<parseVars, previewVars, coerceVars, renderVars>>

\* the messages whose body is rendered: those of the model that hold a text
HasBody(msg) == Get(msg, <<"role">>) # Str("user") /\ Get(msg, <<"body">>).t = "str"

\* the button of the j-th segment of the k-th message: onIdeaImport(ideaText)
UseIdea(k, j) ==
  /\ PanelMounted
  /\ k \in 1..Len(chatMessages) /\ HasBody(chatMessages[k])
  /\ j \in 1..Len(RenderBody(Get(chatMessages[k], <<"body">>).s))
  /\ RenderBody(Get(chatMessages[k], <<"body">>).s)[j].offer # JNull
  /\ activeTab' = "generate"
  /\ lastEvent' = Event("useIdea", "chat",
                        RenderBody(Get(chatMessages[k], <<"body">>).s)[j].offer.s, "", {})
  /\ UNCHANGED <<gameData, gameScript, error, isGenerating,
                 editableParameters, extractedFrom, featureSuggestions, isAnalyzing, isSuggesting,
                 isEditing, apiKeySelected, calls>>
  /\ UNCHANGED <<parseVars, previewVars, coerceVars, renderVars, chatVars>>

ChatNext ==
  \/ HandleSelectKey
  \/ \E tab \in {"generate", "edit", "chat"} : SetActiveTab(tab)
  \/ \E input \in ChatInputs : HandleSendMessage(input)
  \/ \E i \in 1..MaxInFlight, t \in ChatTexts : SendResponse(i, t)
  \/ \E i \in 1..MaxInFlight, m \in OracleFailures : SendFailure(i, m)
  \/ ClearChat
  \/ \E k \in 1..MaxMessages, j \in 1..(MaxIdeas + 1) : UseIdea(k, j)

ChatSpec == Init /\ [][ChatNext]_vars

\* ------------------------------------------------------------ the application with its chat

\* The handlers of App and of ChatPanel together, with one response text of
\* each kind: a game, a rejection and a text without separator from the
\* generation call; an exported file and a text without separator as imports;
\* one list of parameters, one list of suggestions, one edited script, one
\* chat reply, and a chat history of up to MaxSessionMessages messages.
MaxSessionMessages == 2

SessionGenerationTexts ==
  { GameText(GoodDescriptor, WrappedScript), Compact(Rejection(<< <<"reason", Str("r")>> >>)), <<"x">> }
SessionImportTexts ==
  { Pretty(GoodDescriptor) \o <<"\n", codeSeparator, "\n">> \o Script0 \o <<"\n", endSeparator>>, <<"x">> }
SessionAnalysisTexts == { Compact(JArr(<<OneParam(Str("5"))>>)) }
SessionSuggestionTexts == { Compact(MkObj(<< <<"suggestions", JArr(<<Str("f")>>)>> >>)) }
SessionEditTexts == { <<"y">> }
SessionChatTexts == { Reply(Str("h"), Str("b"), Str("f"), JStr(<<"e", "n">>)) }

\* a send while the history has room for it and its answer
SessionSend(input) ==
  /\ Len(chatMessages) + Len(calls) + 2 <= MaxSessionMessages
  /\ HandleSendMessage(input)

SessionNext ==
  \/ HandleSelectKey
  \/ \E tab \in {"generate", "edit", "chat"} : SetActiveTab(tab)
  \/ \E fields \in {"blank", "filled"} : HandleGenerate(fields)
  \/ \E i \in 1..MaxInFlight, m \in OracleFailures : GenerateFailure(i, m)
  \/ \E i \in 1..MaxInFlight, t \in SessionGenerationTexts : GenerateResponse(i, t)
  \/ \E i \in 1..MaxInFlight, m \in OracleFailures : AnalyzeFailure(i, m)
  \/ \E i \in 1..MaxInFlight, t \in SessionAnalysisTexts : AnalyzeResponse(i, t)
  \/ \E i \in 1..MaxInFlight, m \in OracleFailures : SuggestFailure(i, m)
  \/ \E i \in 1..MaxInFlight, t \in SessionSuggestionTexts : SuggestResponse(i, t)
  \/ \E f \in BOOLEAN, n \in BOOLEAN, s \in BOOLEAN, g \in {"blank", "filled"} :
       HandleEditGame(f, n, s, g)
  \/ \E i \in 1..MaxInFlight, m \in OracleFailures : EditFailure(i, m)
  \/ \E i \in 1..MaxInFlight, t \in SessionEditTexts : EditResponse(i, t)
  \/ \E t \in SessionImportTexts : FileLoaded(t)
  \/ \E input \in ChatInputs : SessionSend(input)
  \/ \E i \in 1..MaxInFlight, t \in SessionChatTexts : SendResponse(i, t)
  \/ \E i \in 1..MaxInFlight, m \in OracleFailures : SendFailure(i, m)
  \/ ClearChat

SessionSpec == Init /\ [][SessionNext]_vars

\* ------------------------------------------------------------ parseAiOutput: properties

\* parseAiOutput has been applied to parseInput
Applied == parseResult # JNull

\* the text before the first separator, after the fence stripping and the trim
Preamble == CleanJsonString(SubSeq(parseInput, 1, IndexOf(parseInput, codeSeparator) - 1))

\* s holds the text t
Holds(s, t) == \E k \in 0..(Len(s) - Len(t)) : SubSeq(s, k + 1, k + Len(t)) = t

\* no descriptor and no script
NothingParsed(r) == r.gameData = JNull /\ r.gameScript = JNull

\* C1: parseAiOutput is total: whatever the input text, preambles that are JSON
\* values other than objects included, it returns a ParseResult and raises no
\* exception to its caller.
C1_Total == Applied => ~parseResult.threw

\* C2 as stated: a gameData that is not null has a non-empty title, a non-empty
\* description and a how_to_play that is a non-empty array; whenever gameData
\* is null, so is gameScript.
C2_NonEmptyHowTo ==
  Applied /\ ~parseResult.threw =>
    IF parseResult.gameData # JNull
    THEN /\ Truthy(Get(parseResult.gameData, <<"title">>))
         /\ Truthy(Get(parseResult.gameData, <<"description">>))
         /\ IsArray(Get(parseResult.gameData, <<"how_to_play">>))
         /\ Get(parseResult.gameData, <<"how_to_play">>).a # <<>>
    ELSE parseResult.gameScript = JNull

\* C2 amended: a gameData that is not null has a truthy title, a truthy
\* description and a how_to_play that is an array, which may be empty, and comes
\* with a script and no error; whenever gameData is null, so is gameScript.
C2_RequiredFields ==
  Applied /\ ~parseResult.threw =>
    IF parseResult.gameData # JNull
    THEN /\ Truthy(Get(parseResult.gameData, <<"title">>))
         /\ Truthy(Get(parseResult.gameData, <<"description">>))
         /\ IsArray(Get(parseResult.gameData, <<"how_to_play">>))
         /\ parseResult.gameScript.t = "str"
         /\ parseResult.error = JNull
    ELSE parseResult.gameScript = JNull

\* a descriptor with an empty how_to_play has been returned
C2_Witness ==
  /\ Applied /\ ~parseResult.threw
  /\ parseResult.gameData # JNull
  /\ Get(parseResult.gameData, <<"how_to_play">>) = JArr(<<>>)

\* C6: for every input that is not blank and does not hold the separator,
\* parseAiOutput returns an error that names the separator, and no descriptor
\* and no script.
C6_SeparatorMissing ==
  Applied /\ Trim(parseInput) # <<>> /\ ~Contains(parseInput, codeSeparator) =>
    /\ ~parseResult.threw
    /\ NothingParsed(parseResult)
    /\ parseResult.error.t = "str"
    /\ Holds(parseResult.error.s, <<codeSeparator>>)

\* an input with a descriptor and the separator in lower case has been parsed
C6_Witness ==
  /\ Applied
  /\ ~Contains(parseInput, codeSeparator)
  /\ Contains(parseInput, "%%begincode%%")
  /\ Holds(parseInput, Compact(GoodDescriptor))

\* C7: for every input whose preamble is not a JSON text, parseAiOutput returns
\* an error that holds the message of JSON.parse, and no descriptor and no
\* script.
C7_InvalidJson ==
  Applied /\ Contains(parseInput, codeSeparator) /\ ~JSONParse(Preamble).ok =>
    /\ ~parseResult.threw
    /\ NothingParsed(parseResult)
    /\ parseResult.error.t = "str"
    /\ JSONParse(Preamble).err # <<>>
    /\ Holds(parseResult.error.s, JSONParse(Preamble).err)

\* an input whose preamble is a descriptor cut short has been parsed
C7_Witness ==
  /\ Applied
  /\ Contains(parseInput, codeSeparator)
  /\ Preamble \in Prefixes(Pretty(GoodDescriptor)) \ {<<>>}
  /\ parseResult.error # JNull

\* the value of the preamble lacks a required field
LacksRequired(v) ==
  \/ Get(v, <<"title">>) = Undefined
  \/ Get(v, <<"description">>) = Undefined
  \/ ~IsArray(Get(v, <<"how_to_play">>))

\* C8: for every input whose preamble is a JSON text whose value lacks title,
\* lacks description, or has a how_to_play that is absent or no array,
\* parseAiOutput returns the error that lists the three fields, and no
\* descriptor and no script.
C8_MissingFields ==
  Applied /\ Contains(parseInput, codeSeparator) /\ JSONParse(Preamble).ok
    /\ LacksRequired(JSONParse(Preamble).val) =>
      /\ ~parseResult.threw
      /\ NothingParsed(parseResult)
      /\ parseResult.error = JStr(MissingFields)

\* C9: for every input that is empty or only white space, parseAiOutput
\* returns null for gameData, for gameScript and for error.
C9_Blank ==
  Applied /\ (\A k \in 1..Len(parseInput) : IsSpace(parseInput[k])) =>
    /\ ~parseResult.threw
    /\ NothingParsed(parseResult)
    /\ parseResult.error = JNull

\* an input of white space has been parsed
C9_Witness == Applied /\ parseInput = <<"\n">>

\* C5: round trip: for every held pair that handleExport accepts, parseAiOutput
\* of the exported file returns no error, a gameData equal to the exported one
\* and the exported script up to surrounding white space.
C5_RoundTrip ==
  reimported # JNull =>
    /\ ~reimported.threw
    /\ reimported.error = JNull
    /\ reimported.gameData = parseResult.gameData
    /\ reimported.gameScript = JStr(Trim(heldScript.s))

\* ------------------------------------------------------------ handleGenerate: properties

\* the last step was the return of a generation call
Responded == lastEvent.kind = "generateResponse"

\* the whole response, trimmed, as JSON.parse takes it
Whole == JSONParse(Trim(lastEvent.raw))

\* the whole response is a JSON object whose field key is true
ObjectWithTrue(key) ==
  Whole.ok /\ Whole.val.t = "obj" /\ Get(Whole.val, <<key>>) = JBool(TRUE)

\* the error of a rejection: the reason of the object, or the fallback text
RejectionText ==
  JStr(<<"AI Rejection: ">> \o
       (IF Truthy(Get(Whole.val, <<"reason">>)) THEN ToText(Get(Whole.val, <<"reason">>))
        ELSE <<"No reason provided.">>))

\* C3 as stated: when the whole trimmed response is a JSON object whose
\* rejected or rejection field is true, handleGenerate ends in the rejection
\* with the reason of the object (or the fallback text), not in a parse failure.
C3_RejectedOrRejection ==
  Responded /\ (ObjectWithTrue("rejected") \/ ObjectWithTrue("rejection")) =>
    lastEvent.outcome = "rejection" /\ error = RejectionText

\* C3 amended: when the whole trimmed response is a JSON object whose
\* rejection field is true, handleGenerate ends in the rejection with the
\* reason of the object, or the fallback text when the reason is absent or
\* falsy; the field rejected is not looked at.
C3_Rejection ==
  Responded /\ ObjectWithTrue("rejection") =>
    lastEvent.outcome = "rejection" /\ error = RejectionText

\* a rejection without a reason has ended in the fallback text
C3_Witness ==
  /\ Responded /\ ObjectWithTrue("rejection")
  /\ ~HasKey(Whole.val, <<"reason">>)
  /\ error = JStr(<<"AI Rejection: ", "No reason provided.">>)

\* what handleGenerate makes of the result res of parseAiOutput: a TypeError
\* reaches the outer catch, an error is shown with the raw output, a parsed
\* pair is set and its analysis started
Relayed(res) ==
  IF res.threw
  THEN lastEvent.outcome = "threw" /\ error = JStr(<<"API Error", ": ">> \o res.message)
  ELSE IF res.error # JNull
  THEN /\ lastEvent.outcome = "parseError"
       /\ error = JStr(res.error.s \o <<"\n\nRaw AI Output:\n">> \o lastEvent.raw)
  ELSE /\ lastEvent.outcome = "parsed"
       /\ gameData = res.gameData /\ gameScript = res.gameScript
       /\ lastEvent.issued = {"analysis"}

\* C4: for every response that is not, as a whole after trimming, a JSON
\* object with a true rejection field (text that is no JSON, and JSON without
\* the field, included), the probe raises nothing and does not call it a
\* rejection: what handleGenerate does is what parseAiOutput gives for it.
C4_ProbeSilent ==
  Responded /\ ~ObjectWithTrue("rejection") =>
    lastEvent.outcome # "rejection" /\ Relayed(parseAiOutput(lastEvent.raw))

\* a JSON response without a true rejection field has gone to parseAiOutput
C4_Witness ==
  /\ Responded /\ Whole.ok /\ ~ObjectWithTrue("rejection")
  /\ lastEvent.outcome = "parseError"

\* the last step classified a generation response as a rejection
RejectedNow == Responded /\ lastEvent.outcome = "rejection"

\* no call of handleGenerate is in flight
NoGenerateCall == \A k \in 1..Len(calls) : calls[k].origin # "generate"

AfterSeparator == SubSeq(parseInput, IndexOf(parseInput, codeSeparator) + 1, Len(parseInput))

\* the text t up to its first end separator, or all of it
UpToEnd(t) ==
  IF \E k \in 1..Len(t) : t[k] = endSeparator
  THEN SubSeq(t, 1, (CHOOSE k \in 1..Len(t) :
                       t[k] = endSeparator /\ \A m \in 1..(k - 1) : t[m] # endSeparator) - 1)
  ELSE t

\* the script region of parseInput, trimmed
Region == Trim(UpToEnd(AfterSeparator))

\* where the first symbol of t that ends in > stands (0: there is none)
FirstGt(t) ==
  IF \E k \in 1..Len(t) : EndsInGt(t[k])
  THEN CHOOSE k \in 1..Len(t) : EndsInGt(t[k]) /\ \A m \in 1..(k - 1) : ~EndsInGt(t[m])
  ELSE 0

\* t is <script ATTRS> S </script>: an opening tag first, a closing tag last
Wrapped(t) ==
  /\ Len(t) >= 3
  /\ IsScriptOpen(t[1]) /\ IsScriptClose(t[Len(t)])
  /\ FirstGt(t) # 0 /\ FirstGt(t) < Len(t) /\ t[FirstGt(t)] = ">"

\* the S of a wrapped t
Inside(t) == SubSeq(t, FirstGt(t) + 1, Len(t) - 1)

\* the preamble of parseInput is a descriptor that passes the check
DescriptorGiven ==
  /\ Contains(parseInput, codeSeparator)
  /\ JSONParse(Preamble).ok
  /\ JSONParse(Preamble).val # JNull
  /\ Truthy(Get(JSONParse(Preamble).val, <<"title">>))
  /\ Truthy(Get(JSONParse(Preamble).val, <<"description">>))
  /\ IsArray(Get(JSONParse(Preamble).val, <<"how_to_play">>))

\* C11: a script tag is stripped only as a wrapping pair: for a script region
\* <script ATTRS> S </script> the gameScript is S trimmed, and a region that is
\* not wrapped in such a pair is returned as it is, trimmed.
C11_WrappingPair ==
  Applied /\ DescriptorGiven =>
    parseResult.gameScript =
      JStr(IF Wrapped(Region) THEN Trim(Inside(Region)) ELSE Region)

\* C12: the script region is the text after the first separator, cut at the
\* first end separator after it and without it; with no end separator it is
\* all the rest, and the parse succeeds with a null error.
C12_Region ==
  Applied /\ DescriptorGiven =>
    /\ ~parseResult.threw
    /\ parseResult.error = JNull
    /\ parseResult.gameData = JSONParse(Preamble).val
    /\ parseResult.gameScript = JStr(CleanScript(UpToEnd(AfterSeparator)))

\* a text with two end separators after the separator has been parsed
C12_Witness ==
  /\ Applied /\ DescriptorGiven
  /\ \E k, m \in 1..Len(AfterSeparator) :
       k < m /\ AfterSeparator[k] = endSeparator /\ AfterSeparator[m] = endSeparator
  /\ parseResult.gameScript.t = "str"
  /\ ~Contains(parseResult.gameScript.s, endSeparator)

\* ------------------------------------------------------------ the labels: properties

\* the comma-separated entries of the labels string
Entries == IF labels.t = "str" THEN Len(Split(labels.s, ",")) ELSE 0

\* every role has a value in both languages
Filled(table) ==
  \A i \in 1..Len(keys) :
    /\ Get(table.comf, <<keys[i]>>) # Undefined
    /\ Get(table.target, <<keys[i]>>) # Undefined

\* C13: the label decoder yields no partly filled table: the table is the
\* built-in default (always so for fewer than seven comma-separated entries),
\* or all seven roles have a value in both languages.
C13_NoPartialTable ==
  translations # JNull =>
    /\ Entries < 7 => translations = DefaultTable
    /\ translations = DefaultTable \/ Filled(translations)

\* ------------------------------------------------------------ the coercion: properties

\* the array of the response text, as JSON.parse reads it
RawRecords == JSONParse(MatchArray(analysisText))

\* the response holds an array of records (objects)
RecordsGiven ==
  /\ MatchArray(analysisText) # <<>>
  /\ RawRecords.ok
  /\ \A i \in 1..Len(RawRecords.val.a) : RawRecords.val.a[i].t = "obj"

\* a value text that JSON.parse does not take and that no single quote opens
Unparsable(v) == v.t = "str" /\ ~JSONParse(v.s).ok /\ (v.s = <<>> \/ v.s[1] # "'")

\* C14: the coercion never fails the batch: for every sequence of records the
\* extraction call returns there is one coerced record per record, in the same
\* order; a value text that cannot be parsed is kept as it is; no error
\* reaches the caller.
C14_NeverFails ==
  analysis # JNull /\ RecordsGiven =>
    /\ analysis.ok
    /\ analysis.params.t = "arr"
    /\ Len(analysis.params.a) = Len(RawRecords.val.a)
    /\ \A i \in 1..Len(RawRecords.val.a) :
         /\ analysis.params.a[i].t = "obj"
         /\ Get(analysis.params.a[i], <<"name">>) = Get(RawRecords.val.a[i], <<"name">>)
         /\ Get(analysis.params.a[i], <<"description">>)
              = Get(RawRecords.val.a[i], <<"description">>)
         /\ Unparsable(Get(RawRecords.val.a[i], <<"value">>)) =>
              Get(analysis.params.a[i], <<"value">>) = Get(RawRecords.val.a[i], <<"value">>)

\* two records, the second with a value text that is no JSON, have been coerced
C14_Witness ==
  /\ analysis # JNull /\ RecordsGiven
  /\ Len(RawRecords.val.a) = 2
  /\ Get(RawRecords.val.a[2], <<"value">>) = Str("x")
  /\ Get(analysis.params.a[2], <<"value">>) = Str("x")

\* the value v has the shape the type names (of the six types of GameParameter)
ShapeOf(type, v) ==
  CASE type = Str("number") -> v.t = "num"
    [] type = Str("string") -> v.t = "str"
    [] type = Str("boolean") -> v.t = "bool"
    [] type = Str("array_string") -> v.t = "arr" /\ \A k \in 1..Len(v.a) : v.a[k].t = "str"
    [] type = Str("array_object") -> v.t = "arr" /\ \A k \in 1..Len(v.a) : v.a[k].t = "obj"
    [] type = Str("object") -> v.t = "obj"
    [] OTHER -> TRUE

\* C15: after the coercion the value of every parameter (of a record that
\* came with a value text) has the shape its type names.
C15_ShapeMatchesType ==
  analysis # JNull /\ RecordsGiven /\ analysis.ok =>
    \A i \in 1..Len(analysis.params.a) :
      Get(RawRecords.val.a[i], <<"value">>).t = "str" =>
        ShapeOf(Get(analysis.params.a[i], <<"type">>), Get(analysis.params.a[i], <<"value">>))

\* the text v is 'X'
SingleQuoted(v) ==
  v.t = "str" /\ Len(v.s) >= 2 /\ v.s[1] = "'" /\ v.s[Len(v.s)] = "'"

\* C16: for every value text 'X' in single quotes the coercion yields the
\* string X, the text between the quotes.
C16_SingleQuoted ==
  analysis # JNull /\ RecordsGiven /\ analysis.ok =>
    \A i \in 1..Len(RawRecords.val.a) :
      SingleQuoted(Get(RawRecords.val.a[i], <<"value">>)) =>
        Get(analysis.params.a[i], <<"value">>)
          = JStr(SubSeq(Get(RawRecords.val.a[i], <<"value">>).s, 2,
                        Len(Get(RawRecords.val.a[i], <<"value">>).s) - 1))

\* ------------------------------------------------------------ ChatPanel: properties

\* the spans of the body: the texts before, between and after its idea markers
Spans == SplitIdea(body)

\* the offers among the rendered segments, in order
Offers == SelectSeq(rendered.a, LAMBDA g : g.offer # JNull)

\* a span trimmed, with a leading list marker taken off: a bullet (* or -) or
\* an ordinal (digits and a point), each followed by white space, as the
\* renderer of the body recognises them
Unmarked(span) ==
  IF IsBulleted(Trim(span)) \/ IsNumbered(Trim(span))
  THEN Trim(IF IsBulleted(Trim(span)) THEN Unbulleted(Trim(span)) ELSE Unnumbered(Trim(span)))
  ELSE Trim(span)

\* C17: a rendered body with n idea markers shows n offers, the i-th with the
\* i-th span, trimmed and without its leading list marker, as payload; the
\* text after the last marker gives no offer and no segment when it is blank.
C17_OfferPerMarker ==
  rendered # JNull /\ body # <<>> =>
    /\ Len(Offers) = Len(Spans) - 1
    /\ \A i \in 1..Len(Offers) : Offers[i].offer = JStr(Unmarked(Spans[i]))
    /\ Len(rendered.a) = Len(Spans) - (IF Trim(Spans[Len(Spans)]) = <<>> THEN 1 ELSE 0)
    /\ Trim(Spans[Len(Spans)]) # <<>> => rendered.a[Len(rendered.a)].offer = JNull

\* the idea marker stands somewhere in the text
HasMarker(text) == FirstMarker(text) # 0

\* C18: no rendered segment, no offer payload and no text the copy button
\* wrote holds the idea marker.
C18_MarkerNeverShown ==
  /\ rendered # JNull =>
       \A i \in 1..Len(rendered.a) :
         /\ ~HasMarker(rendered.a[i].html)
         /\ rendered.a[i].offer # JNull => ~HasMarker(rendered.a[i].offer.s)
  /\ clipboard # JNull => ~HasMarker(clipboard.s)

\* the message a send has just appended
Appended == chatMessages[Len(chatMessages)]

\* a send has just ended
SendEnded == lastEvent.kind \in {"sendResponse", "sendFailure"}

Letters == {"e", "n", "s", "g"}

\* a text of two letters
TwoLetters(v) == v.t = "str" /\ Len(v.s) = 2 /\ \A i \in 1..2 : v.s[i] \in Letters

\* C19: the message a send appends to the history, whatever the response
\* text was, holds header, body, footer and language, none of them null, and
\* its language is a two-letter code.
C19_FourFields ==
  SendEnded =>
    /\ \A field \in {"header", "body", "footer", "language"} :
         Get(Appended, <<field>>).t \notin {"undefined", "null"}
    /\ TwoLetters(Get(Appended, <<"language">>))

\* two calls of one purpose are in flight
SamePurposeTwice ==
  \E i \in 1..Len(calls), j \in 1..Len(calls) : i # j /\ calls[i].stage = calls[j].stage

\* C20: no two oracle calls of the same purpose are in flight at once.
C20_OnePerPurpose == ~SamePurposeTwice

\* ------------------------------------------------------------ the handlers: properties

\* the step taken last was the failure of a secondary call
ExtractionFailed == lastEvent.kind = "analyzeFailure"
SuggestionFailed == lastEvent.kind = "suggestFailure"

\* the message of a failure names the missing entity
NamesMissingEntity(message) == \E k \in 1..Len(message) : message[k] = NotFoundMessage

\* the error a failure handed to handleApiKeyError leaves
ErrorFor(context, message) ==
  IF NamesMissingEntity(message) THEN JStr(KeyInvalid)
  ELSE JStr(<<context>> \o <<": ">> \o message)

\* C21 amended: the failure of a parameter extraction or feature suggestion
\* call keeps the held gameData and gameScript and empties the result set of
\* that call; the failure of a feature suggestion call leaves the error state
\* and the key as they were, the failure of a parameter extraction call sets
\* the error ("Error analyzing game script: <message>", or the key-invalid
\* message).
C21_SecondaryFailure ==
  [][(ExtractionFailed' \/ SuggestionFailed') =>
       /\ UNCHANGED <<gameData, gameScript>>
       /\ ExtractionFailed' =>
            /\ editableParameters' = JArr(<<>>)
            /\ error' = ErrorFor("Error analyzing game script", lastEvent'.raw)
       /\ SuggestionFailed' =>
            /\ featureSuggestions' = JArr(<<>>)
            /\ UNCHANGED <<error, apiKeySelected>>]_vars

\* a parameter extraction has failed while a game is held
C21_Witness ==
  /\ ExtractionFailed /\ gameData # JNull /\ Truthy(gameScript)
  /\ editableParameters = JArr(<<>>) /\ error # JNull

\* C21: the failure of a parameter extraction or feature suggestion call
\* keeps the held gameData and gameScript, empties the result set of that
\* call and leaves the error state as it was.
C21_SecondaryFailureSilent ==
  [][(ExtractionFailed' \/ SuggestionFailed') =>
       /\ UNCHANGED <<gameData, gameScript, error>>
       /\ ExtractionFailed' => editableParameters' = JArr(<<>>)
       /\ SuggestionFailed' => featureSuggestions' = JArr(<<>>)]_vars

\* the context each failing call hands to handleApiKeyError
ContextOf(kind) ==
  CASE kind = "generateFailure" -> "API Error"
    [] kind = "editFailure" -> "Error editing game"
    [] kind = "analyzeFailure" -> "Error analyzing game script"
    [] kind = "sendFailure" -> "Error sending message to AINARA"
    [] OTHER -> "Error getting edit suggestions"

\* the step taken last was the failure of an oracle call
ReportedFailures == {"generateFailure", "editFailure", "analyzeFailure", "sendFailure"}
CallFailed == lastEvent.kind \in ReportedFailures \cup {"suggestFailure"}

\* what the claim asks of the step of a failure
KeyGivenUp == apiKeySelected' = FALSE /\ error' = JStr(KeyInvalid)
GenericError(kind, message) ==
  /\ apiKeySelected' = apiKeySelected
  /\ error' = JStr(<<ContextOf(kind)>> \o <<": ">> \o message)

\* C22 amended: a failure of the generation, edit, parameter extraction or
\* chat call whose message names the missing entity sets apiKeySelected false
\* and the key-invalid message; any other failure of these calls leaves
\* apiKeySelected as it was and sets the error "<context>: <message>"; a
\* failure of the feature suggestion call changes neither the key nor the
\* error, whatever its message.
C22_KeyErrors ==
  [][CallFailed' =>
       IF lastEvent'.kind = "suggestFailure" THEN UNCHANGED <<apiKeySelected, error>>
       ELSE IF NamesMissingEntity(lastEvent'.raw) THEN KeyGivenUp
       ELSE GenericError(lastEvent'.kind, lastEvent'.raw)]_vars

\* a chat send has failed with the message of a missing entity
C22_Witness ==
  /\ lastEvent.kind = "sendFailure" /\ NamesMissingEntity(lastEvent.raw)
  /\ ~apiKeySelected /\ error = JStr(KeyInvalid)

\* C22: every failure of an oracle call whose message names the missing
\* entity sets apiKeySelected false and the key-invalid message; every other
\* failure leaves apiKeySelected as it was and sets the error
\* "<context>: <message>".
C22_EveryCall ==
  [][CallFailed' =>
       IF NamesMissingEntity(lastEvent'.raw) THEN KeyGivenUp
       ELSE GenericError(lastEvent'.kind, lastEvent'.raw)]_vars

\* the text t stands somewhere in the text s
HoldsText(s, t) == \E k \in 0..(Len(s) - Len(t)) : SubSeq(s, k + 1, k + Len(t)) = t

\* a generation or an import has just ended in a protocol error: the parser
\* reported one, or failed on a preamble that is no object
ProtocolError ==
  /\ lastEvent.kind \in {"generateResponse", "import"}
  /\ lastEvent.outcome \in {"parseError", "threw"}

\* the message of the parser for the raw text (for a preamble it fails on:
\* that of the missing fields)
ParserMessage(res) == IF res.threw THEN MissingFields ELSE res.error.s

\* C23: after a generation or an import that ended in a protocol error the
\* error state holds the parser's message and the raw text as it came, and
\* no descriptor and no script is held.
C23_ProtocolErrors ==
  ProtocolError =>
    /\ error.t = "str"
    /\ HoldsText(error.s, ParserMessage(parseAiOutput(lastEvent.raw)))
    /\ HoldsText(error.s, lastEvent.raw)
    /\ gameData = JNull /\ gameScript = JNull

\* the order of the purposes within the calls one user action leads to
Rank(stage) ==
  CASE stage \in {"generation", "edit", "chat"} -> 1
    [] stage = "analysis" -> 2
    [] stage = "suggestion" -> 3

\* the steps the user takes that may issue a call, and the steps that are the
\* return of a call
UserActions == {"generate", "edit", "import", "send"}
Returns == {"generateResponse", "editResponse", "analyzeResponse"}

\* the purposes of the calls, in the order of the queue
Purposes(q) == [k \in 1..Len(q) |-> q[k].stage]

\* C24: a call is added only by a step of the user, one at a time; the return
\* of a call may replace that call by the one of the next purpose, once; and
\* the step of a failure issues nothing: the failed call is gone and the
\* others are as they were.
C24_NoRetry ==
  [][/\ Len(calls') > Len(calls) =>
          /\ lastEvent'.kind \in UserActions
          /\ Len(calls') = Len(calls) + 1
          /\ SubSeq(calls', 1, Len(calls)) = calls
     /\ Len(calls') = Len(calls) /\ Purposes(calls') # Purposes(calls) =>
          /\ lastEvent'.kind \in Returns
          /\ \E i \in 1..Len(calls) :
               /\ Rank(calls'[i].stage) = Rank(calls[i].stage) + 1
               /\ \A k \in 1..Len(calls) : k # i => calls'[k] = calls[k]
     /\ CallFailed' =>
          /\ lastEvent'.issued = {}
          /\ \E i \in 1..Len(calls) : calls' = RemoveAt(calls, i)]_vars

\* an edit call has failed and nothing is in flight
C24_Witness ==
  lastEvent.kind = "editFailure" /\ calls = <<>> /\ ~isEditing /\ error # JNull

\* how many calls of a purpose are in flight
InFlight(q, stage) == Cardinality({k \in 1..Len(q) : q[k].stage = stage})

\* the step just taken parsed a generation or an import, or took the script
\* of an edit
ParsedOrEdited(e) ==
  \/ e.kind \in {"generateResponse", "import"} /\ e.outcome = "parsed"
  \/ e.kind = "editResponse"

\* a feature suggestion and a parameter extraction of one script are in flight
SecondaryInParallel ==
  \E i \in 1..Len(calls), j \in 1..Len(calls) :
    /\ calls[i].stage = "suggestion" /\ calls[j].stage = "analysis"
    /\ calls[i].script = calls[j].script

\* C25: a parameter extraction call is issued only by the step that parsed a
\* generation or an import or that took an edited script; a feature
\* suggestion call only by the step at which the extraction returned its
\* parameters; and the two are never in flight together for one script.
C25_SecondaryInOrder ==
  [][/\ InFlight(calls', "analysis") > InFlight(calls, "analysis") =>
          ParsedOrEdited(lastEvent')
     /\ InFlight(calls', "suggestion") > InFlight(calls, "suggestion") =>
          lastEvent'.kind = "analyzeResponse" /\ lastEvent'.outcome = "extracted"
     /\ ~SecondaryInParallel']_vars

\* the order alone, call by call
C25_OrderOnly ==
  [][/\ InFlight(calls', "analysis") > InFlight(calls, "analysis") =>
          ParsedOrEdited(lastEvent')
     /\ InFlight(calls', "suggestion") > InFlight(calls, "suggestion") =>
          lastEvent'.kind = "analyzeResponse" /\ lastEvent'.outcome = "extracted"]_vars

\* C26: in every reachable state gameData is null exactly when gameScript is
\* null.
C26_Paired == (gameData = JNull) <=> (gameScript = JNull)

\* C27: whenever no parameter extraction is in flight and editableParameters
\* is a non-empty list while a script is held, the list was extracted from
\* the held gameScript.
C27_ParametersOfHeldScript ==
  /\ InFlight(calls, "analysis") = 0
  /\ editableParameters.t = "arr" /\ editableParameters.a # <<>>
  /\ gameScript # JNull
  => extractedFrom = gameScript

\* the in-flight flag of each purpose
FlagOf(stage) ==
  CASE stage = "generation" -> isGenerating
    [] stage = "edit" -> isEditing
    [] stage = "analysis" -> isAnalyzing
    [] stage = "suggestion" -> isSuggesting
    [] stage = "chat" -> isLoading

AllPurposes == {"generation", "edit", "analysis", "suggestion", "chat"}

\* C28: once every call has returned or failed all in-flight flags are false,
\* and a flag is false only while no call of its purpose is outstanding.
C28_FlagsFollowCalls ==
  /\ calls = <<>> => \A stage \in AllPurposes : ~FlagOf(stage)
  /\ \A stage \in AllPurposes : ~FlagOf(stage) => InFlight(calls, stage) = 0

\* the first half alone
FlagsEndFalse == calls = <<>> => \A stage \in AllPurposes : ~FlagOf(stage)

\* the step taken last was an edit that asked for nothing, or the failure of
\* an edit call
EditAskedNothing == lastEvent.kind = "edit" /\ lastEvent.outcome = "nothing"
EditCallFailed == lastEvent.kind = "editFailure"

\* C29: an edit that requests no change, and an edit whose call fails, leaves
\* gameScript and gameData as they were, issues no analysis call, sets the
\* error and ends with isEditing false.
C29_EditWithoutEffect ==
  [][(EditAskedNothing' \/ EditCallFailed') =>
       /\ UNCHANGED <<gameScript, gameData>>
       /\ InFlight(calls', "analysis") = InFlight(calls, "analysis")
       /\ InFlight(calls', "suggestion") = InFlight(calls, "suggestion")
       /\ EditAskedNothing' => calls' = calls
       /\ error'.t = "str" /\ error'.s # <<>>
       /\ isEditing' = FALSE]_vars

\* an edit call has failed while a game is held
C29_Witness ==
  /\ EditCallFailed /\ Truthy(gameScript) /\ gameData # JNull
  /\ ~isEditing /\ error # JNull /\ InFlight(calls, "analysis") = 0

\* ------------------------------------------------------------ the chat history: properties

\* a message the user sent
IsUserMessage(msg) == \E input \in ChatInputs : msg = UserMessage(input)

\* C30: in the chat history every assistant message stands right after the
\* user message it answers and every user message is followed by its answer,
\* except a last user message whose send is still in flight.
C30_Alternating ==
  \A k \in 1..Len(chatMessages) :
    IF IsUserMessage(chatMessages[k])
    THEN IF k = Len(chatMessages) THEN InFlight(calls, "chat") > 0
         ELSE ~IsUserMessage(chatMessages[k + 1])
    ELSE k > 1 /\ IsUserMessage(chatMessages[k - 1])

====
